---- MODULE Spec2Model ----
(***************************************************************************)
(* Model of the 8x8 pillar scoring engine (backend/scoring_8x8.py) and of  *)
(* the pillar allocator (backend/optimizer_8x8.py).                        *)
(*                                                                         *)
(* Numbers.  Every pillar function only compares its input with fixed      *)
(* thresholds, so a metric is modelled on an integer grid whose unit makes *)
(* every threshold an integer and leaves grid points strictly between any  *)
(* two thresholds:                                                         *)
(*   roic, revenue_cagr_3y, roe, fcf_margin, tam_growth_rate : hundredths  *)
(*        (0.20 is 20),                                                    *)
(*   debt_to_ebitda : tenths (2.5 is 25),                                  *)
(*   rule_of_40, industry_gross_margin_percentile : points.                *)
(*                                                                         *)
(* Python values.  A metric value is one of                                *)
(*   None, a number Num(n), the float NaN, a string Str(s);                *)
(* Missing marks a key that the dict does not hold.                        *)
(***************************************************************************)
EXTENDS Integers, Sequences, FiniteSets, TLC

VARIABLES
    op,             \* the function called
    args,           \* its arguments
    ret,            \* its outcome, Pending before the call is made
    scored_stocks,  \* the list handed to select_top_8
    db,             \* the committed rows of the database, by table
    now,            \* the clock that datetime.now() reads
    committed_runs  \* history: the rebalance runs committed so far

vars == <<op, args, ret, scored_stocks, db, now, committed_runs>>

store_vars == <<db, now, committed_runs>>

(* database.py lines 14-128: the tables, empty after init_db *)
EmptyStore ==
    [securities |-> {}, fundamentals |-> {}, prices |-> {}, scores |-> {},
     pillar_scores |-> {}, portfolio_8x8 |-> {}]

(* the state of the store before any request *)
StoreAtStart == db = EmptyStore /\ now = 0 /\ committed_runs = <<>>

----------------------------------------------------------------------------
(* Bounds of the input grids *)

MaxRatio == 50
BelowZero == 5
MaxDebt == 30
MaxPoints == 100
MaxStocks == 9
MaxOdd == 1
MaxPad == 6
MaxAdded == 3
MaxSelected == 3
MaxBatch == 3
MaxPositions == 9
MaxFaults == 2
MaxCompared == 2
MaxCalls == 3
MaxHeld == 2
MaxNormalized == 2
MaxRuns == 2

----------------------------------------------------------------------------
(* Python values *)

None == [t |-> "None"]
NaN == [t |-> "nan"]
Missing == [t |-> "missing"]
Num(n) == [t |-> "num", v |-> n]
Str(s) == [t |-> "str", v |-> s]

IsNum(x) == x.t = "num"

(* x < c, x <= c, x > c, x >= c for a float x and a number c: False for NaN *)
Lt(x, c) == IsNum(x) /\ x.v < c
Le(x, c) == IsNum(x) /\ x.v <= c
Gt(x, c) == IsNum(x) /\ x.v > c
Ge(x, c) == IsNum(x) /\ x.v >= c

(* comparing a str with a number raises TypeError *)
CompareRaises(x) == x.t = "str"

RatioVals == {Num(n) : n \in (0 - BelowZero)..MaxRatio}
DebtVals == {Num(n) : n \in (0 - BelowZero)..MaxDebt}
PointVals == {Num(n) : n \in 0..MaxPoints}
Odd == {None, NaN, Str("n/a")}

BuybackVals == {Str("disciplined"), Str("moderate"), Str("aggressive"), Str("none"), None}
TrendVals == {Str("gaining"), Str("stable"), Str("losing"), Str("unknown"), None}

----------------------------------------------------------------------------
(* The eight pillar functions *)

score_moat_none_passes(roic) ==
    IF Lt(roic, 20) THEN 0
    ELSE IF Ge(roic, 40) THEN 8
    ELSE IF Ge(roic, 35) THEN 7
    ELSE IF Ge(roic, 30) THEN 6
    ELSE IF Ge(roic, 25) THEN 5
    ELSE 4

score_moat(roic) ==
    IF roic = None \/ Lt(roic, 20) THEN 0
    ELSE IF Ge(roic, 40) THEN 8
    ELSE IF Ge(roic, 35) THEN 7
    ELSE IF Ge(roic, 30) THEN 6
    ELSE IF Ge(roic, 25) THEN 5
    ELSE 4

score_fortress_low_debt_8(debt_to_ebitda) ==
    IF debt_to_ebitda = None \/ Le(debt_to_ebitda, 0) THEN 8
    ELSE IF Gt(debt_to_ebitda, 25) THEN 0
    ELSE IF Le(debt_to_ebitda, 5) THEN 7
    ELSE IF Le(debt_to_ebitda, 10) THEN 6
    ELSE IF Le(debt_to_ebitda, 15) THEN 5
    ELSE 4

score_fortress_no_net_cash(debt_to_ebitda) ==
    IF debt_to_ebitda = None THEN 8
    ELSE IF Gt(debt_to_ebitda, 25) THEN 0
    ELSE IF Le(debt_to_ebitda, 5) THEN 7
    ELSE IF Le(debt_to_ebitda, 10) THEN 6
    ELSE IF Le(debt_to_ebitda, 15) THEN 5
    ELSE 4

score_fortress(debt_to_ebitda) ==
    IF debt_to_ebitda = None \/ Lt(debt_to_ebitda, 0) THEN 8
    ELSE IF Gt(debt_to_ebitda, 25) THEN 0
    ELSE IF Le(debt_to_ebitda, 5) THEN 7
    ELSE IF Le(debt_to_ebitda, 10) THEN 6
    ELSE IF Le(debt_to_ebitda, 15) THEN 5
    ELSE 4

score_engine_top_inclusive(revenue_cagr_3y) ==
    IF revenue_cagr_3y = None \/ Lt(revenue_cagr_3y, 10) THEN 0
    ELSE IF Ge(revenue_cagr_3y, 30) THEN 8
    ELSE IF Ge(revenue_cagr_3y, 25) THEN 7
    ELSE IF Ge(revenue_cagr_3y, 20) THEN 6
    ELSE IF Ge(revenue_cagr_3y, 15) THEN 5
    ELSE 4

score_engine(revenue_cagr_3y) ==
    IF revenue_cagr_3y = None \/ Lt(revenue_cagr_3y, 10) THEN 0
    ELSE IF Gt(revenue_cagr_3y, 30) THEN 8
    ELSE IF Ge(revenue_cagr_3y, 25) THEN 7
    ELSE IF Ge(revenue_cagr_3y, 20) THEN 6
    ELSE IF Ge(revenue_cagr_3y, 15) THEN 5
    ELSE 4

score_efficiency(rule_of_40) ==
    IF rule_of_40 = None \/ Lt(rule_of_40, 40) THEN 0
    ELSE IF Gt(rule_of_40, 70) THEN 8
    ELSE IF Ge(rule_of_40, 60) THEN 7
    ELSE IF Ge(rule_of_40, 50) THEN 6
    ELSE IF Ge(rule_of_40, 45) THEN 5
    ELSE 4

score_pricing_power(gross_margin_percentile) ==
    IF gross_margin_percentile = None \/ Lt(gross_margin_percentile, 60) THEN 0
    ELSE IF Ge(gross_margin_percentile, 95) THEN 8
    ELSE IF Ge(gross_margin_percentile, 90) THEN 7
    ELSE IF Ge(gross_margin_percentile, 80) THEN 6
    ELSE IF Ge(gross_margin_percentile, 70) THEN 5
    ELSE 4

score_capital_allocation_strict_5(roe, buyback_quality) ==
    IF roe = None \/ Lt(roe, 15) THEN 0
    ELSE IF Gt(roe, 30) /\ buyback_quality = Str("disciplined") THEN 8
    ELSE IF Gt(roe, 25) /\ buyback_quality \in {Str("disciplined"), Str("moderate")} THEN 7
    ELSE IF Gt(roe, 20) THEN 6
    ELSE IF Ge(roe, 15) /\ Lt(roe, 20) THEN 5
    ELSE 4

score_capital_allocation(roe, buyback_quality) ==
    IF roe = None \/ Lt(roe, 15) THEN 0
    ELSE IF Gt(roe, 30) /\ buyback_quality = Str("disciplined") THEN 8
    ELSE IF Gt(roe, 25) /\ buyback_quality \in {Str("disciplined"), Str("moderate")} THEN 7
    ELSE IF Gt(roe, 20) THEN 6
    ELSE IF Ge(roe, 15) /\ Le(roe, 20) THEN 5
    ELSE 4

score_cash_generation_ladder_to_3(fcf_margin) ==
    IF fcf_margin = None \/ Lt(fcf_margin, 12) THEN 0
    ELSE IF Gt(fcf_margin, 30) THEN 8
    ELSE IF Ge(fcf_margin, 25) THEN 7
    ELSE IF Ge(fcf_margin, 20) THEN 6
    ELSE IF Ge(fcf_margin, 17) THEN 5
    ELSE IF Ge(fcf_margin, 15) THEN 4
    ELSE 3

score_cash_generation(fcf_margin) ==
    IF fcf_margin = None \/ Lt(fcf_margin, 12) THEN 0
    ELSE IF Gt(fcf_margin, 30) THEN 8
    ELSE IF Ge(fcf_margin, 25) THEN 7
    ELSE IF Ge(fcf_margin, 20) THEN 6
    ELSE IF Ge(fcf_margin, 15) THEN 5
    ELSE 4

score_durability_stable_never_0(market_share_trend, tam_growth) ==
    IF market_share_trend = None \/ tam_growth = None THEN 4
    ELSE IF market_share_trend = Str("losing") \/ Lt(tam_growth, 0) THEN 0
    ELSE IF market_share_trend = Str("gaining") THEN
        IF Gt(tam_growth, 20) THEN 8
        ELSE IF Ge(tam_growth, 15) THEN 7
        ELSE IF Ge(tam_growth, 10) THEN 5
        ELSE 4
    ELSE IF Gt(tam_growth, 20) THEN 6
    ELSE 4

score_durability(market_share_trend, tam_growth) ==
    IF market_share_trend = None \/ tam_growth = None THEN 4
    ELSE IF market_share_trend = Str("losing") \/ Lt(tam_growth, 0) THEN 0
    ELSE IF market_share_trend = Str("gaining") THEN
        IF Gt(tam_growth, 20) THEN 8
        ELSE IF Ge(tam_growth, 15) THEN 7
        ELSE IF Ge(tam_growth, 10) THEN 5
        ELSE 4
    ELSE IF Gt(tam_growth, 20) THEN 6
    ELSE IF Ge(tam_growth, 10) THEN 4
    ELSE 0

(* A pillar function raises TypeError when it reaches a comparison of a    *)
(* str with a number; `x is None` and `==` never raise.                    *)
single_metric_raises(x) == x # None /\ CompareRaises(x)

score_durability_raises(market_share_trend, tam_growth) ==
    /\ market_share_trend # None
    /\ tam_growth # None
    /\ market_share_trend # Str("losing")
    /\ CompareRaises(tam_growth)

----------------------------------------------------------------------------
(* calculate_total_score *)

Keys == {"roic", "debt_to_ebitda", "revenue_cagr_3y", "rule_of_40",
         "industry_gross_margin_percentile", "roe", "buyback_quality",
         "fcf_margin", "market_share_trend", "tam_growth_rate"}

Pillars == <<"moat", "fortress", "engine", "efficiency", "pricing_power",
             "capital_allocation", "cash_generation", "durability">>

PillarNames == {Pillars[i] : i \in 1..Len(Pillars)}

(* fundamentals.get(key, default): the default only when the key is absent *)
get(fundamentals, key, default) ==
    IF fundamentals[key] = Missing THEN default ELSE fundamentals[key]

(* the arguments calculate_total_score passes to the pillar functions *)
pillar_args(fundamentals) ==
    [roic |-> get(fundamentals, "roic", Num(0)),
     debt_to_ebitda |-> get(fundamentals, "debt_to_ebitda", None),
     revenue_cagr_3y |-> get(fundamentals, "revenue_cagr_3y", Num(0)),
     rule_of_40 |-> get(fundamentals, "rule_of_40", Num(0)),
     industry_gross_margin_percentile |->
         get(fundamentals, "industry_gross_margin_percentile", Num(0)),
     roe |-> get(fundamentals, "roe", Num(0)),
     buyback_quality |-> get(fundamentals, "buyback_quality", Str("none")),
     fcf_margin |-> get(fundamentals, "fcf_margin", Num(0)),
     market_share_trend |-> get(fundamentals, "market_share_trend", Str("stable")),
     tam_growth_rate |-> get(fundamentals, "tam_growth_rate", Num(10))]

(* lines 180-197 with an engine pillar whose lowest passing score is 3 *)
pillar_scores_engine_from_3(fundamentals) ==
    LET a == pillar_args(fundamentals)
        engine == score_engine(a.revenue_cagr_3y)
    IN
    [moat |-> score_moat(a.roic),
     fortress |-> score_fortress(a.debt_to_ebitda),
     engine |-> IF engine = 4 THEN 3 ELSE engine,
     efficiency |-> score_efficiency(a.rule_of_40),
     pricing_power |-> score_pricing_power(a.industry_gross_margin_percentile),
     capital_allocation |-> score_capital_allocation(a.roe, a.buyback_quality),
     cash_generation |-> score_cash_generation(a.fcf_margin),
     durability |-> score_durability(a.market_share_trend, a.tam_growth_rate)]

pillar_scores(fundamentals) ==
    LET a == pillar_args(fundamentals) IN
    [moat |-> score_moat(a.roic),
     fortress |-> score_fortress(a.debt_to_ebitda),
     engine |-> score_engine(a.revenue_cagr_3y),
     efficiency |-> score_efficiency(a.rule_of_40),
     pricing_power |-> score_pricing_power(a.industry_gross_margin_percentile),
     capital_allocation |-> score_capital_allocation(a.roe, a.buyback_quality),
     cash_generation |-> score_cash_generation(a.fcf_margin),
     durability |-> score_durability(a.market_share_trend, a.tam_growth_rate)]

(* some pillar function raises inside the try block *)
scoring_raises(fundamentals) ==
    LET a == pillar_args(fundamentals) IN
    \/ single_metric_raises(a.roic)
    \/ single_metric_raises(a.debt_to_ebitda)
    \/ single_metric_raises(a.revenue_cagr_3y)
    \/ single_metric_raises(a.rule_of_40)
    \/ single_metric_raises(a.industry_gross_margin_percentile)
    \/ single_metric_raises(a.roe)
    \/ single_metric_raises(a.fcf_margin)
    \/ score_durability_raises(a.market_share_trend, a.tam_growth_rate)

(* sum(scores.values()) *)
sum_scores(scores) ==
    scores.moat + scores.fortress + scores.engine + scores.efficiency
    + scores.pricing_power + scores.capital_allocation
    + scores.cash_generation + scores.durability

(* [k for k, v in scores.items() if v == 0], in the dict's insertion order *)
zero_pillars(scores) == SelectSeq(Pillars, LAMBDA k : scores[k] = 0)

aggregate_first_zero_only(scores) ==
    LET zeros == zero_pillars(scores)
        reasons0 == IF zeros = <<>> THEN <<>> ELSE <<Head(zeros)>>
        eliminated0 == Len(reasons0) > 0
        total == IF ~eliminated0 THEN sum_scores(scores) ELSE 0
        gate == total < 32 /\ ~eliminated0
    IN [scores |-> scores,
        total_score |-> total,
        is_eliminated |-> IF gate THEN TRUE ELSE eliminated0,
        elimination_reasons |-> IF gate THEN <<"below_minimum_score">> ELSE reasons0]

(* lines 199-211: the two elimination gates and the total *)
aggregate(scores) ==
    LET reasons0 == zero_pillars(scores)
        eliminated0 == Len(reasons0) > 0
        total == IF ~eliminated0 THEN sum_scores(scores) ELSE 0
        gate == total < 32 /\ ~eliminated0
    IN [scores |-> scores,
        total_score |-> total,
        is_eliminated |-> IF gate THEN TRUE ELSE eliminated0,
        elimination_reasons |-> IF gate THEN <<"below_minimum_score">> ELSE reasons0]

error_fallback_total_0 ==
    [scores |-> [k \in PillarNames |-> 4],
     total_score |-> 0,
     is_eliminated |-> FALSE,
     elimination_reasons |-> <<>>]

(* lines 213-219: the except branch *)
error_fallback ==
    [scores |-> [k \in PillarNames |-> 4],
     total_score |-> 32,
     is_eliminated |-> FALSE,
     elimination_reasons |-> <<>>]

calculate_total_score(fundamentals) ==
    IF scoring_raises(fundamentals)
    THEN error_fallback
    ELSE aggregate(pillar_scores(fundamentals))

----------------------------------------------------------------------------
(* select_top_8 (backend/optimizer_8x8.py).  A scored stock is a dict with *)
(* the keys below; Missing marks an absent key.  median_pillar_score is    *)
(* held in halves (np.median of eight integers), p_fcf may be float('inf') *)

Bool(b) == [t |-> "bool", v |-> b]
Inf == [t |-> "inf"]

(* s.get(key, default) on a stock dict *)
stock_get(s, key, default) == IF s[key] = Missing THEN default ELSE s[key]

(* Python truth value of a flag: None and False are falsy *)
Truthy(x) ==
    CASE x.t = "bool" -> x.v
      [] x.t = "num" -> x.v # 0
      [] OTHER -> FALSE

(* line 27: not s.get('is_eliminated', True) *)
not_eliminated_missing_passes(s) == ~Truthy(stock_get(s, "is_eliminated", Bool(FALSE)))

not_eliminated(s) == ~Truthy(stock_get(s, "is_eliminated", Bool(TRUE)))

(* line 30: s.get('total_score', 0) >= 32 *)
meets_minimum(s) == stock_get(s, "total_score", Num(0)).v >= 32

(* the order of two floats one of which may be inf, on the negated p_fcf:  *)
(* -a > -b iff a < b, and inf is below no value                            *)
pfcf_less(a, b) == a # Inf /\ (b = Inf \/ a.v < b.v)

(* lines 37-43 with the sign of p_fcf dropped *)
key_greater_pfcf_descending(x, y) ==
    LET tx == stock_get(x, "total_score", Num(0)).v
        ty == stock_get(y, "total_score", Num(0)).v
        lx == stock_get(x, "lowest_pillar_score", Num(0)).v
        ly == stock_get(y, "lowest_pillar_score", Num(0)).v
        mx == stock_get(x, "median_pillar_score", Num(0)).v
        my == stock_get(y, "median_pillar_score", Num(0)).v
        px == stock_get(x, "p_fcf", Inf)
        py == stock_get(y, "p_fcf", Inf)
        fx == stock_get(x, "fcf_absolute", Num(0)).v
        fy == stock_get(y, "fcf_absolute", Num(0)).v
    IN \/ tx > ty
       \/ tx = ty /\ lx > ly
       \/ tx = ty /\ lx = ly /\ mx > my
       \/ tx = ty /\ lx = ly /\ mx = my /\ pfcf_less(py, px)
       \/ tx = ty /\ lx = ly /\ mx = my /\ px = py /\ fx > fy

(* lines 37-43: the sort key of x is greater than the sort key of y *)
key_greater(x, y) ==
    LET tx == stock_get(x, "total_score", Num(0)).v
        ty == stock_get(y, "total_score", Num(0)).v
        lx == stock_get(x, "lowest_pillar_score", Num(0)).v
        ly == stock_get(y, "lowest_pillar_score", Num(0)).v
        mx == stock_get(x, "median_pillar_score", Num(0)).v
        my == stock_get(y, "median_pillar_score", Num(0)).v
        px == stock_get(x, "p_fcf", Inf)
        py == stock_get(y, "p_fcf", Inf)
        fx == stock_get(x, "fcf_absolute", Num(0)).v
        fy == stock_get(y, "fcf_absolute", Num(0)).v
    IN \/ tx > ty
       \/ tx = ty /\ lx > ly
       \/ tx = ty /\ lx = ly /\ mx > my
       \/ tx = ty /\ lx = ly /\ mx = my /\ pfcf_less(px, py)
       \/ tx = ty /\ lx = ly /\ mx = my /\ px = py /\ fx > fy

(* x placed into a list sorted by descending key, after the elements whose *)
(* key is not smaller (list.sort is stable, also with reverse=True)        *)
RECURSIVE insert_desc(_, _)
insert_desc(x, sorted) ==
    IF sorted = <<>> THEN <<x>>
    ELSE IF key_greater(x, Head(sorted)) THEN <<x>> \o sorted
    ELSE <<Head(sorted)>> \o insert_desc(x, Tail(sorted))

RECURSIVE sort_desc(_)
sort_desc(list) ==
    IF list = <<>> THEN <<>>
    ELSE insert_desc(list[Len(list)], sort_desc(SubSeq(list, 1, Len(list) - 1)))

(* qualified[:8] *)
first_8(list) == SubSeq(list, 1, IF Len(list) < 8 THEN Len(list) ELSE 8)

select_top_8(stocks) ==
    LET qualified == SelectSeq(SelectSeq(stocks, not_eliminated), meets_minimum)
    IN IF qualified = <<>> THEN <<>> ELSE first_8(sort_desc(qualified))

----------------------------------------------------------------------------
(* Inputs *)

NumericKeyVals(grid) == grid \cup Odd \cup {Missing}

(* every value the model gives to a key of a metric record *)
KeyVals(key) ==
    CASE key = "debt_to_ebitda" -> NumericKeyVals(DebtVals)
      [] key \in {"rule_of_40", "industry_gross_margin_percentile"} -> NumericKeyVals(PointVals)
      [] key = "buyback_quality" -> BuybackVals \cup {Missing}
      [] key = "market_share_trend" -> TrendVals \cup {Missing}
      [] OTHER -> NumericKeyVals(RatioVals)

(* every metric in its top band *)
TopBand ==
    [roic |-> Num(45), debt_to_ebitda |-> Num(0 - 3), revenue_cagr_3y |-> Num(32),
     rule_of_40 |-> Num(75), industry_gross_margin_percentile |-> Num(96),
     roe |-> Num(35), buyback_quality |-> Str("disciplined"), fcf_margin |-> Num(32),
     market_share_trend |-> Str("gaining"), tam_growth_rate |-> Num(22)]

(* every metric in its lowest passing band *)
MinBand ==
    [roic |-> Num(22), debt_to_ebitda |-> Num(20), revenue_cagr_3y |-> Num(12),
     rule_of_40 |-> Num(42), industry_gross_margin_percentile |-> Num(65),
     roe |-> Num(18), buyback_quality |-> Str("none"), fcf_margin |-> Num(13),
     market_share_trend |-> Str("stable"), tam_growth_rate |-> Num(15)]

(* every metric in its eliminating band *)
FailBand ==
    [roic |-> Num(10), debt_to_ebitda |-> Num(30), revenue_cagr_3y |-> Num(5),
     rule_of_40 |-> Num(30), industry_gross_margin_percentile |-> Num(50),
     roe |-> Num(10), buyback_quality |-> Str("none"), fcf_margin |-> Num(8),
     market_share_trend |-> Str("losing"), tam_growth_rate |-> Num(0 - 2)]

Bands == {TopBand, MinBand, FailBand}

(* the keys read for one pillar *)
PillarKeys(p) ==
    CASE p = "moat" -> {"roic"}
      [] p = "fortress" -> {"debt_to_ebitda"}
      [] p = "engine" -> {"revenue_cagr_3y"}
      [] p = "efficiency" -> {"rule_of_40"}
      [] p = "pricing_power" -> {"industry_gross_margin_percentile"}
      [] p = "capital_allocation" -> {"roe", "buyback_quality"}
      [] p = "cash_generation" -> {"fcf_margin"}
      [] p = "durability" -> {"market_share_trend", "tam_growth_rate"}

PillarOfKey(key) == CHOOSE p \in PillarNames : key \in PillarKeys(p)

(* records that take each pillar's metrics from one of the three bands *)
BandRecords ==
    {[key \in Keys |-> band[PillarOfKey(key)][key]] : band \in [PillarNames -> Bands]}

(* a band record with one key, or the two keys of one pillar, set to any value *)
EditedRecords ==
    UNION {UNION {{[base EXCEPT ![key] = v] : v \in KeyVals(key)} : key \in Keys}
           : base \in Bands}
    \cup
    UNION {{[base EXCEPT !["market_share_trend"] = t, !["tam_growth_rate"] = g]
            : t \in KeyVals("market_share_trend"), g \in KeyVals("tam_growth_rate")}
           : base \in Bands}
    \cup
    UNION {{[base EXCEPT !["roe"] = r, !["buyback_quality"] = b]
            : r \in KeyVals("roe"), b \in KeyVals("buyback_quality")}
           : base \in Bands}

MetricRecords == BandRecords \cup EditedRecords

Call(fn, a) == [fn |-> fn, args |-> a]

Calls ==
    {Call("score_moat", <<x>>) : x \in RatioVals \cup Odd}
    \cup {Call("score_fortress", <<x>>) : x \in DebtVals \cup Odd}
    \cup {Call("score_engine", <<x>>) : x \in RatioVals \cup Odd}
    \cup {Call("score_efficiency", <<x>>) : x \in PointVals \cup Odd}
    \cup {Call("score_pricing_power", <<x>>) : x \in PointVals \cup Odd}
    \cup {Call("score_capital_allocation", <<x, b>>) : x \in RatioVals \cup Odd, b \in BuybackVals}
    \cup {Call("score_cash_generation", <<x>>) : x \in RatioVals \cup Odd}
    \cup {Call("score_durability", <<t, g>>) : t \in TrendVals, g \in RatioVals \cup Odd}
    \cup {Call("calculate_total_score", <<f>>) : f \in MetricRecords}

----------------------------------------------------------------------------
(* Outcomes of a call *)

Pending == [t |-> "pending"]
TypeError == [t |-> "TypeError"]
Returned(v) == [t |-> "return", v |-> v]

(* the outcome of a pillar function: it raises or returns its score *)
Outcome(raises, score) == IF raises THEN TypeError ELSE Returned(score)

----------------------------------------------------------------------------
(* Scoring: the state is one call, its arguments drawn by Init *)

Init ==
    /\ \E c \in Calls : op = c.fn /\ args = c.args
    /\ ret = Pending
    /\ scored_stocks = <<>>
    /\ StoreAtStart

ScoreMoat ==
    /\ op = "score_moat" /\ ret = Pending
    /\ ret' = Outcome(single_metric_raises(args[1]), score_moat(args[1]))
    /\ UNCHANGED <<op, args, scored_stocks, store_vars>>

ScoreFortress ==
    /\ op = "score_fortress" /\ ret = Pending
    /\ ret' = Outcome(single_metric_raises(args[1]), score_fortress(args[1]))
    /\ UNCHANGED <<op, args, scored_stocks, store_vars>>

ScoreEngine ==
    /\ op = "score_engine" /\ ret = Pending
    /\ ret' = Outcome(single_metric_raises(args[1]), score_engine(args[1]))
    /\ UNCHANGED <<op, args, scored_stocks, store_vars>>

ScoreEfficiency ==
    /\ op = "score_efficiency" /\ ret = Pending
    /\ ret' = Outcome(single_metric_raises(args[1]), score_efficiency(args[1]))
    /\ UNCHANGED <<op, args, scored_stocks, store_vars>>

ScorePricingPower ==
    /\ op = "score_pricing_power" /\ ret = Pending
    /\ ret' = Outcome(single_metric_raises(args[1]), score_pricing_power(args[1]))
    /\ UNCHANGED <<op, args, scored_stocks, store_vars>>

ScoreCapitalAllocation ==
    /\ op = "score_capital_allocation" /\ ret = Pending
    /\ ret' = Outcome(single_metric_raises(args[1]),
                      score_capital_allocation(args[1], args[2]))
    /\ UNCHANGED <<op, args, scored_stocks, store_vars>>

ScoreCashGeneration ==
    /\ op = "score_cash_generation" /\ ret = Pending
    /\ ret' = Outcome(single_metric_raises(args[1]), score_cash_generation(args[1]))
    /\ UNCHANGED <<op, args, scored_stocks, store_vars>>

ScoreDurability ==
    /\ op = "score_durability" /\ ret = Pending
    /\ ret' = Outcome(score_durability_raises(args[1], args[2]),
                      score_durability(args[1], args[2]))
    /\ UNCHANGED <<op, args, scored_stocks, store_vars>>

CalculateTotalScore ==
    /\ op = "calculate_total_score" /\ ret = Pending
    /\ ret' = Returned(calculate_total_score(args[1]))
    /\ UNCHANGED <<op, args, scored_stocks, store_vars>>

Next ==
    \/ ScoreMoat
    \/ ScoreFortress
    \/ ScoreEngine
    \/ ScoreEfficiency
    \/ ScorePricingPower
    \/ ScoreCapitalAllocation
    \/ ScoreCashGeneration
    \/ ScoreDurability
    \/ CalculateTotalScore

Spec == Init /\ [][Next]_vars

----------------------------------------------------------------------------
(* Weights (backend/optimizer_8x8.py).  A Python float that is the result  *)
(* of a few divisions of small integers is held as an exact fraction n/d   *)
(* in lowest terms with d > 0; the tolerances of the code (1e-3, 0.03) are *)
(* many orders of magnitude above the rounding error of such a float.      *)

Abs(n) == IF n < 0 THEN 0 - n ELSE n

RECURSIVE GCD(_, _)
GCD(a, b) == IF b = 0 THEN a ELSE GCD(b, a % b)

Frac(n, d) ==
    LET g == GCD(Abs(n), Abs(d))
        sign == IF d < 0 THEN 0 - 1 ELSE 1
    IN [n |-> sign * (n \div g), d |-> sign * (d \div g)]

Zero == Frac(0, 1)
One == Frac(1, 1)
FracAdd(a, b) ==
    LET g == GCD(a.d, b.d)
    IN Frac(a.n * (b.d \div g) + b.n * (a.d \div g), (a.d \div g) * b.d)
FracSub(a, b) == FracAdd(a, [n |-> 0 - b.n, d |-> b.d])
FracMul(a, b) == Frac(a.n * b.n, a.d * b.d)
FracDiv(a, b) == Frac(a.n * b.d, a.d * b.n)
FracLt(a, b) ==
    LET g == GCD(a.d, b.d)
    IN a.n * (b.d \div g) < b.n * (a.d \div g)
FracLe(a, b) == ~FracLt(b, a)
FracAbs(a) == [n |-> Abs(a.n), d |-> a.d]

(* sum(d.values()) of a dict d *)
RECURSIVE sum_values(_, _)
sum_values(d, keys) ==
    IF keys = {} THEN Zero
    ELSE LET k == CHOOSE k \in keys : TRUE
         IN FracAdd(d[k], sum_values(d, keys \ {k}))

EmptyDict == [k \in {} |-> Zero]
ZeroDivisionError == [t |-> "ZeroDivisionError"]

(* line 73: stock.get('ticker', 'UNKNOWN') *)
ticker_of(stock) == stock_get(stock, "ticker", Str("UNKNOWN"))

(* lines 74-77 without the floor of one point *)
points_unfloored(stock) == stock_get(stock, "total_score", Num(32)).v - 30

(* lines 74-77: points = max(score - 30, 1) *)
points(stock) ==
    LET score == stock_get(stock, "total_score", Num(32)).v
    IN IF score - 30 > 1 THEN score - 30 ELSE 1

(* line 81: total_points = sum(p for _, p, _ in points_above_base) *)
RECURSIVE total_points(_)
total_points(stocks) ==
    IF stocks = <<>> THEN 0 ELSE points(Head(stocks)) + total_points(Tail(stocks))

(* line 83: if total_points == 0 *)
takes_equal_weight_branch(stocks) == total_points(stocks) = 0

(* a dict built by assigning list entries in order: the last entry of a    *)
(* ticker is the one that stays                                            *)
last_entry(stocks, ticker) ==
    CHOOSE i \in 1..Len(stocks) :
        /\ ticker_of(stocks[i]) = ticker
        /\ \A j \in (i + 1)..Len(stocks) : ticker_of(stocks[j]) # ticker

tickers_of(stocks) == {ticker_of(stocks[i]) : i \in 1..Len(stocks)}

(* lines 83-93: equal weights when the points sum to zero, else the share  *)
(* of the points                                                           *)
raw_weights(stocks) ==
    IF takes_equal_weight_branch(stocks)
    THEN [t \in tickers_of(stocks) |-> Frac(1, Len(stocks))]
    ELSE [t \in tickers_of(stocks) |->
             Frac(points(stocks[last_entry(stocks, t)]), total_points(stocks))]

(* line 97: abs(weight_sum - 1.0) > 0.001 *)
off_by_more_than_tolerance(weight_sum) ==
    FracLt(Frac(1, 1000), FracAbs(FracSub(weight_sum, One)))

(* lines 53-103; lines 100-101 divide every weight by weight_sum *)
calculate_weights(selected_stocks) ==
    IF selected_stocks = <<>> THEN Returned(EmptyDict)
    ELSE LET weights == raw_weights(selected_stocks)
             weight_sum == sum_values(weights, DOMAIN weights)
         IN IF ~off_by_more_than_tolerance(weight_sum) THEN Returned(weights)
            ELSE IF weight_sum = Zero THEN ZeroDivisionError
            ELSE Returned([t \in DOMAIN weights |-> FracDiv(weights[t], weight_sum)])

(* lines 106-153: one position per selected stock, in order; the fields    *)
(* that are copied through unread (name, sector, industry, fundamentals,   *)
(* tie_breakers) are left out                                              *)
create_portfolio_allocation(selected_stocks, weights) ==
    [rank \in 1..Len(selected_stocks) |->
        LET stock == selected_stocks[rank]
            ticker == ticker_of(stock)
        IN [rank |-> rank,
            ticker |-> ticker,
            weight |-> IF ticker \in DOMAIN weights THEN weights[ticker] ELSE Zero,
            total_score |-> stock_get(stock, "total_score", Num(0)),
            points_above_base |-> stock_get(stock, "total_score", Num(32)).v - 30,
            pillar_scores |-> stock_get(stock, "scores", EmptyDict)]]

(* optimizer_8x8.py lines 106-153 with the objects the record holds.  Line  *)
(* 131 stores stock.get('scores', {}), the security's own pillar-score     *)
(* dict and not a copy: Ref(rank) stands for that object.  Lines 132-148   *)
(* build new dicts from the values read with get (None when absent).       *)
Ref(rank) == [t |-> "ref", of |-> rank]

AllocationFundamentals ==
    {"roic", "debt_to_ebitda", "revenue_cagr_3y", "rule_of_40", "gross_margin",
     "roe", "fcf_margin", "market_share_trend", "tam_growth_rate"}

AllocationTieBreakers ==
    {"lowest_pillar_score", "median_pillar_score", "p_fcf", "fcf_absolute"}

(* d.get(key) *)
get_or_None(d, key) ==
    IF key \in DOMAIN d /\ d[key] # Missing THEN d[key] ELSE None

allocation_record(selected_stocks, weights) ==
    [rank \in 1..Len(selected_stocks) |->
        LET stock == selected_stocks[rank]
            ticker == ticker_of(stock)
            fundamentals == IF "fundamentals" \in DOMAIN stock
                            THEN stock["fundamentals"] ELSE EmptyDict
        IN [rank |-> rank,
            ticker |-> ticker,
            weight |-> IF ticker \in DOMAIN weights THEN weights[ticker] ELSE Zero,
            total_score |-> stock_get(stock, "total_score", Num(0)),
            points_above_base |-> stock_get(stock, "total_score", Num(32)).v - 30,
            pillar_scores |-> IF "scores" \in DOMAIN stock THEN Ref(rank) ELSE EmptyDict,
            fundamentals |-> [k \in AllocationFundamentals |-> get_or_None(fundamentals, k)],
            tie_breakers |-> [k \in AllocationTieBreakers |-> get_or_None(stock, k)]]]

(* what a reader of the record sees: a reference is followed to the object *)
(* as it is now                                                            *)
read_allocation(portfolio, selected_stocks) ==
    [rank \in 1..Len(portfolio) |->
        IF portfolio[rank].pillar_scores = Ref(rank)
        THEN [portfolio[rank] EXCEPT !.pillar_scores = selected_stocks[rank]["scores"]]
        ELSE portfolio[rank]]

(* line 176: sum(p.get('weight', 0) for p in portfolio) *)
RECURSIVE total_weight(_)
total_weight(portfolio) ==
    IF portfolio = <<>> THEN Zero
    ELSE FracAdd(stock_get(Head(portfolio), "weight", Zero), total_weight(Tail(portfolio)))

Issue(kind, rank, pillar) == [kind |-> kind, rank |-> rank, pillar |-> pillar]

(* lines 169-173 without the branch for fewer than 8 positions *)
size_issues_only_above_8(portfolio) ==
    IF Len(portfolio) > 8 THEN <<Issue("too_many_positions", 0, "")>> ELSE <<>>

(* lines 169-173: one issue when the portfolio has not exactly 8 positions *)
size_issues(portfolio) ==
    IF Len(portfolio) = 8 THEN <<>>
    ELSE IF Len(portfolio) < 8 THEN <<Issue("only_n_positions", 0, "")>>
    ELSE <<Issue("too_many_positions", 0, "")>>

(* lines 176-178 *)
weight_issues(portfolio) ==
    IF off_by_more_than_tolerance(total_weight(portfolio))
    THEN <<Issue("weights_sum", 0, "")>> ELSE <<>>

(* lines 181-184: position.get('total_score', 0) < 32 *)
score_issues(portfolio) ==
    LET low == SelectSeq([i \in 1..Len(portfolio) |-> i],
                         LAMBDA i : stock_get(portfolio[i], "total_score", Num(0)).v < 32)
    IN [k \in 1..Len(low) |-> Issue("score_below_minimum", low[k], "")]

(* lines 187-191: every pillar at 0 of every position, position by         *)
(* position, in the order of the dict                                      *)
RECURSIVE pillar_issues_from(_, _)
pillar_issues_from(portfolio, i) ==
    IF i > Len(portfolio) THEN <<>>
    ELSE LET pillar_scores_i == stock_get(portfolio[i], "pillar_scores", EmptyDict)
             zeros == SelectSeq(Pillars, LAMBDA k : k \in DOMAIN pillar_scores_i
                                                    /\ pillar_scores_i[k] = 0)
         IN [k \in 1..Len(zeros) |-> Issue("zero_pillar", i, zeros[k])]
            \o pillar_issues_from(portfolio, i + 1)

(* lines 156-194 *)
validate_portfolio(portfolio) ==
    LET issues == size_issues(portfolio) \o weight_issues(portfolio)
                  \o score_issues(portfolio) \o pillar_issues_from(portfolio, 1)
    IN [is_valid |-> Len(issues) = 0, issues |-> issues]

(* lines 208-209: {p['ticker']: p for p in portfolio}, the tickers in the  *)
(* order in which the dict first receives them                             *)
ticker_order(portfolio) ==
    LET first == SelectSeq([i \in 1..Len(portfolio) |-> i],
                           LAMBDA i : \A j \in 1..(i - 1) :
                                         portfolio[j].ticker # portfolio[i].ticker)
    IN [k \in 1..Len(first) |-> portfolio[first[k]].ticker]

by_ticker(portfolio) ==
    [t \in {portfolio[i].ticker : i \in 1..Len(portfolio)} |->
        portfolio[CHOOSE i \in 1..Len(portfolio) :
                     /\ portfolio[i].ticker = t
                     /\ \A j \in (i + 1)..Len(portfolio) : portfolio[j].ticker # t]]

(* line 241 with >= in place of > *)
reportable_from_3_points(weight_diff) == FracLe(Frac(3, 100), FracAbs(weight_diff))

(* line 241: abs(weight_diff) > 0.03 *)
reportable(weight_diff) == FracLt(Frac(3, 100), FracAbs(weight_diff))

(* lines 197-256 *)
compare_portfolios(old_portfolio, new_portfolio) ==
    LET old_tickers == by_ticker(old_portfolio)
        new_tickers == by_ticker(new_portfolio)
        added == SelectSeq(ticker_order(new_portfolio),
                           LAMBDA t : t \notin DOMAIN old_tickers)
        removed == SelectSeq(ticker_order(old_portfolio),
                             LAMBDA t : t \notin DOMAIN new_tickers)
        changed == SelectSeq(ticker_order(old_portfolio),
                             LAMBDA t : /\ t \in DOMAIN new_tickers
                                        /\ reportable(FracSub(new_tickers[t].weight,
                                                              old_tickers[t].weight)))
        additions == [k \in 1..Len(added) |->
                         [ticker |-> added[k],
                          weight |-> new_tickers[added[k]].weight,
                          score |-> new_tickers[added[k]].total_score]]
        removals == [k \in 1..Len(removed) |->
                        [ticker |-> removed[k],
                         weight |-> old_tickers[removed[k]].weight,
                         score |-> old_tickers[removed[k]].total_score]]
        weight_changes == [k \in 1..Len(changed) |->
                              [ticker |-> changed[k],
                               old_weight |-> old_tickers[changed[k]].weight,
                               new_weight |-> new_tickers[changed[k]].weight,
                               change |-> FracSub(new_tickers[changed[k]].weight,
                                                  old_tickers[changed[k]].weight),
                               old_score |-> old_tickers[changed[k]].total_score,
                               new_score |-> new_tickers[changed[k]].total_score]]
    IN [additions |-> additions,
        removals |-> removals,
        weight_changes |-> weight_changes,
        total_changes |-> Len(additions) + Len(removals) + Len(weight_changes)]

----------------------------------------------------------------------------
(* The pillar rebalance batch (backend/main.py, rebalance_8x8).            *)

(* scoring_8x8.py lines 221-233; the median of eight integers is held in   *)
(* halves: the sum of the fourth and fifth smallest                        *)
kth_smallest(scores, k) ==
    CHOOSE v \in {scores[p] : p \in DOMAIN scores} :
        /\ Cardinality({p \in DOMAIN scores : scores[p] < v}) < k
        /\ Cardinality({p \in DOMAIN scores : scores[p] <= v}) >= k

calculate_tie_breakers(scores, fundamentals) ==
    [lowest_pillar_score |-> kth_smallest(scores, 1),
     median_pillar_score |-> kth_smallest(scores, 4) + kth_smallest(scores, 5),
     p_fcf |-> get(fundamentals, "fcf_multiple", Inf),
     fcf_absolute |-> get(fundamentals, "fcf", Num(0))]

(* scoring_8x8.py lines 171-233: one scoring of a record by the two class   *)
(* methods.  They are given the record only; earlier_calls stands for what *)
(* the process has done before, which neither method reads, and the record *)
(* is read with get only, so it is the same after the call.                *)
scorer_call_shared_reasons(earlier_calls, fundamentals) ==
    LET own == calculate_total_score(fundamentals)
        carried == IF earlier_calls = <<>> THEN <<>>
                   ELSE earlier_calls[Len(earlier_calls)].result.elimination_reasons
        result == [own EXCEPT !.elimination_reasons = carried \o @]
    IN [fundamentals |-> fundamentals,
        result |-> result,
        tie_breakers |-> calculate_tie_breakers(result.scores, fundamentals),
        record_after |-> fundamentals]

scorer_call(earlier_calls, fundamentals) ==
    LET result == calculate_total_score(fundamentals)
    IN [fundamentals |-> fundamentals,
        result |-> result,
        tie_breakers |-> calculate_tie_breakers(result.scores, fundamentals),
        record_after |-> fundamentals]

(* main.py line 288: the Fundamental constructor raises TypeError for a    *)
(* key that is not a column of the table (database.py lines 22-51 have no  *)
(* fcf_absolute column)                                                    *)
store_raises(fundamentals) == fundamentals["fcf_absolute"] # Missing

(* main.py lines 292-334: the dict appended to all_scores *)
scored_entry(ticker, fundamentals) ==
    LET result == calculate_total_score(fundamentals)
        tie_breakers == calculate_tie_breakers(result.scores, fundamentals)
    IN [ticker |-> ticker,
        scores |-> result.scores,
        total_score |-> Num(result.total_score),
        is_eliminated |-> Bool(result.is_eliminated),
        elimination_reason |-> result.elimination_reasons,
        lowest_pillar_score |-> Num(tie_breakers.lowest_pillar_score),
        median_pillar_score |-> Num(tie_breakers.median_pillar_score),
        p_fcf |-> tie_breakers.p_fcf,
        fcf_absolute |-> tie_breakers.fcf_absolute]

(* main.py lines 275-340 for one ticker: the same list when the try block  *)
(* raises, the list with the scored dict appended otherwise                *)
score_ticker(all_scores, ticker, fundamentals) ==
    IF store_raises(fundamentals) THEN all_scores
    ELSE Append(all_scores, scored_entry(ticker, fundamentals))

HTTP500 == [t |-> "HTTPException", status_code |-> 500]

(* main.py lines 342-403 *)
finish_rebalance(all_scores) ==
    LET selected == select_top_8(all_scores)
        weights == calculate_weights(selected)
    IN IF weights.t # "return" THEN HTTP500
       ELSE LET portfolio == create_portfolio_allocation(selected, weights.v)
            IN Returned([status |-> "success",
                         portfolio |-> portfolio,
                         total_scored |-> Len(all_scores),
                         validation |-> validate_portfolio(portfolio)])

----------------------------------------------------------------------------
(* The continuous optimizer (backend/optimizer.py).  A dict is a function  *)
(* on its keys; scores are integers, volatilities and weights fractions.   *)

dict_get(d, key, default) == IF key \in DOMAIN d THEN d[key] ELSE default

(* lines 15-19 with > in place of >= *)
filtered_stocks_strict(scores, min_score) ==
    {ticker \in DOMAIN scores : scores[ticker] > min_score}

(* lines 15-19 *)
filtered_stocks(scores, min_score) ==
    {ticker \in DOMAIN scores : scores[ticker] >= min_score}

(* lines 28-32 *)
volatility_of(volatilities, ticker) ==
    LET volatility == dict_get(volatilities, ticker, Frac(1, 4))
    IN IF FracLt(volatility, Frac(1, 100)) THEN Frac(1, 4) ELSE volatility

(* score ** alpha for a whole alpha *)
RECURSIVE Pow(_, _)
Pow(x, n) == IF n = 0 THEN 1 ELSE x * Pow(x, n - 1)

(* line 35 *)
raw_weight(score, volatility, alpha) ==
    FracDiv(Frac(Pow(score, alpha), 1), FracMul(volatility, Frac(10000, 1)))

(* min(a, b) of Python: b when b < a, else a *)
FracMin(a, b) == IF FracLt(b, a) THEN b ELSE a

(* lines 39-41 without the cap *)
capped_weights_uncapped(scores, volatilities, min_score, max_position_size, alpha) ==
    [ticker \in filtered_stocks(scores, min_score) |->
        raw_weight(scores[ticker], volatility_of(volatilities, ticker), alpha)]

(* lines 39-41 *)
capped_weights(scores, volatilities, min_score, max_position_size, alpha) ==
    [ticker \in filtered_stocks(scores, min_score) |->
        FracMin(raw_weight(scores[ticker], volatility_of(volatilities, ticker), alpha),
                max_position_size)]

(* lines 44-51 *)
normalized_weights(capped) ==
    LET capped_total == sum_values(capped, DOMAIN capped)
    IN IF FracLt(Zero, capped_total)
       THEN [ticker \in DOMAIN capped |-> FracDiv(capped[ticker], capped_total)]
       ELSE EmptyDict

(* lines 54-70 *)
final_weights(normalized, max_position_size) ==
    LET clamped == [ticker \in DOMAIN normalized |->
                       IF FracLt(max_position_size, normalized[ticker])
                       THEN max_position_size ELSE normalized[ticker]]
        needs_renormalization ==
            \E ticker \in DOMAIN normalized : FracLt(max_position_size, normalized[ticker])
        total == sum_values(clamped, DOMAIN clamped)
    IN IF needs_renormalization
       THEN [ticker \in DOMAIN clamped |-> FracDiv(clamped[ticker], total)]
       ELSE clamped

(* lines 9-72 *)
optimize_weights(scores, volatilities, min_score, max_position_size, alpha) ==
    IF filtered_stocks(scores, min_score) = {} THEN EmptyDict
    ELSE final_weights(
             normalized_weights(
                 capped_weights(scores, volatilities, min_score, max_position_size, alpha)),
             max_position_size)

----------------------------------------------------------------------------
(* apply_constraints (backend/optimizer.py lines 110-145).  Sectors are     *)
(* strings held as Str records; sector_limits is None or Dict(d).          *)

Dict(d) == [t |-> "dict", v |-> d]

(* line 120: sector_map.get(ticker, "Unknown") *)
grouping_sector(sector_map, ticker) == dict_get(sector_map, ticker, Str("Unknown"))

(* lines 118-123: the summed weight of every sector that has a member *)
sector_weights(weights, sector_map) ==
    [sector \in {grouping_sector(sector_map, t) : t \in DOMAIN weights} |->
        sum_values(weights, {t \in DOMAIN weights : grouping_sector(sector_map, t) = sector})]

(* line 129: sector in sector_weights and sector_weights[sector] > limit *)
over_limit(sector, totals, sector_limits) ==
    sector \in DOMAIN totals /\ FracLt(sector_limits[sector], totals[sector])

(* lines 126-134 with every member cut to the limit instead of scaled *)
adjusted_weights_truncated(weights, sector_map, sector_limits) ==
    LET totals == sector_weights(weights, sector_map)
    IN [t \in DOMAIN weights |->
           LET sector == dict_get(sector_map, t, None)
           IN IF sector \in DOMAIN sector_limits /\ over_limit(sector, totals, sector_limits)
              THEN FracMin(weights[t], sector_limits[sector])
              ELSE weights[t]]

(* lines 126-134: a ticker is scaled when sector_map.get(ticker), None for *)
(* an unmapped ticker, equals a sector that is over its limit              *)
adjusted_weights(weights, sector_map, sector_limits) ==
    LET totals == sector_weights(weights, sector_map)
    IN [t \in DOMAIN weights |->
           LET sector == dict_get(sector_map, t, None)
           IN IF sector \in DOMAIN sector_limits /\ over_limit(sector, totals, sector_limits)
              THEN FracMul(weights[t], FracDiv(sector_limits[sector], totals[sector]))
              ELSE weights[t]]

(* lines 110-145; line 115: not sector_limits holds for None and for {} *)
apply_constraints(weights, sector_map, sector_limits) ==
    IF sector_limits = None \/ DOMAIN sector_limits.v = {} THEN weights
    ELSE LET adjusted == adjusted_weights(weights, sector_map, sector_limits.v)
             total == sum_values(adjusted, DOMAIN adjusted)
         IN IF FracLt(Zero, total)
            THEN [t \in DOMAIN adjusted |-> FracDiv(adjusted[t], total)]
            ELSE adjusted

----------------------------------------------------------------------------
(* _normalize_score (backend/scoring.py lines 78-87).  value is a fraction *)
(* or NaN; every comparison with NaN is false and arithmetic on NaN gives  *)
(* NaN.  The bounds are fractions.                                         *)

(* lines 79-87 with the interpolation not starting from min_score *)
_normalize_score_without_offset(value, min_val, max_val, min_score, max_score) ==
    IF value # NaN /\ FracLe(value, min_val) THEN min_score
    ELSE IF value # NaN /\ FracLe(max_val, value) THEN max_score
    ELSE IF value = NaN THEN NaN
    ELSE FracMul(FracDiv(FracSub(value, min_val), FracSub(max_val, min_val)),
                 FracSub(max_score, min_score))

_normalize_score(value, min_val, max_val, min_score, max_score) ==
    IF value # NaN /\ FracLe(value, min_val) THEN min_score
    ELSE IF value # NaN /\ FracLe(max_val, value) THEN max_score
    ELSE IF value = NaN THEN NaN
    ELSE FracAdd(min_score,
                 FracMul(FracDiv(FracSub(value, min_val), FracSub(max_val, min_val)),
                         FracSub(max_score, min_score)))

----------------------------------------------------------------------------
(* The request handlers over the store (backend/main.py).  A handler works *)
(* in one session: the rows it adds are pending until db.commit() and are  *)
(* discarded by db.rollback() (database.py lines 10-11: autocommit=False,  *)
(* autoflush=False, and no handler flushes).  A table is a set of rows; a  *)
(* row of a table with an autoincrement id carries the time it was added.  *)

HTTP404 == [t |-> "HTTPException", status_code |-> 404]

NoRows ==
    [securities |-> {}, fundamentals |-> {}, prices |-> {}, scores |-> {},
     pillar_scores |-> {}, portfolio_8x8 |-> {}]

(* db.commit() *)
commit(store, pending) ==
    [table \in DOMAIN store |-> store[table] \cup pending[table]]

(* db.rollback() of a session that commits every row as it is added *)
rollback_autocommit(store, pending) ==
    [table \in DOMAIN store |-> store[table] \cup pending[table]]

(* db.rollback() *)
rollback(store, pending) == store

(* the smallest of a non-empty set of times *)
earliest(times) == CHOOSE x \in times : \A y \in times : x <= y

(* the greatest of a non-empty set of times *)
latest(times) == CHOOSE x \in times : \A y \in times : y <= x

(* main.py lines 135-179: results gives, for every ticker of the universe, *)
(* the final score and volatility found or PerTickerError when the         *)
(* provider raised after the security was added (handled at lines 177-179) *)
PerTickerError == [t |-> "error"]

scores_dict(results) ==
    [t \in {u \in DOMAIN results : results[u] # PerTickerError} |-> results[t].final_score]

volatilities_dict(results) ==
    [t \in {u \in DOMAIN results : results[u] # PerTickerError} |-> results[t].volatility]

(* main.py lines 119-221: POST /rebalance.  fault is "none" or the place    *)
(* where the batch raises: "before_commit" (lines 122-198 outside the      *)
(* per-ticker handler) or "at_commit" (line 200)                           *)
trigger_rebalance(store, run_date, tickers, results, fault) ==
    LET scored == DOMAIN scores_dict(results)
        weights == optimize_weights(scores_dict(results), volatilities_dict(results),
                                    50, Frac(1, 20), 2)
        pending ==
            [NoRows EXCEPT
                !.securities = tickers,
                !.fundamentals = {[ticker |-> t, added |-> run_date] : t \in scored},
                !.prices = {[ticker |-> t, added |-> run_date] : t \in scored},
                !.scores = {[ticker |-> t,
                             run_date |-> run_date,
                             final_score |-> dict_get(scores_dict(results), t, 0),
                             volatility |-> dict_get(volatilities_dict(results), t, Frac(1, 4)),
                             weight |-> dict_get(weights, t, Zero)] : t \in tickers}]
    IN IF fault # "none"
       THEN [store |-> rollback(store, pending), response |-> HTTP500]
       ELSE [store |-> commit(store, pending),
             response |-> Returned([status |-> "success",
                                    timestamp |-> run_date,
                                    stocks_processed |-> Cardinality(scored)])]

(* main.py lines 51-82 without the filter on the run date (line 63) *)
get_scores_all_runs(store) ==
    IF store.scores = {} THEN HTTP404
    ELSE LET run_date == latest({row.run_date : row \in store.scores})
         IN Returned([run_date |-> run_date,
                      scores |-> {[ticker |-> row.ticker,
                                   final_score |-> row.final_score,
                                   volatility |-> row.volatility] : row \in store.scores}])

(* main.py lines 51-82: GET /scores.  The entries are held as a set, their *)
(* order (by final score) left out                                         *)
get_scores(store) ==
    IF store.scores = {} THEN HTTP404
    ELSE LET run_date == latest({row.run_date : row \in store.scores})
             scores_for_run == {row \in store.scores : row.run_date = run_date}
         IN Returned([run_date |-> run_date,
                      scores |-> {[ticker |-> row.ticker,
                                   final_score |-> row.final_score,
                                   volatility |-> row.volatility] : row \in scores_for_run}])

(* main.py lines 275-340 over the whole batch *)
RECURSIVE score_batch(_)
score_batch(batch) ==
    IF batch = <<>> THEN <<>>
    ELSE LET entry == batch[Len(batch)]
         IN score_ticker(score_batch(SubSeq(batch, 1, Len(batch) - 1)),
                         entry.ticker, entry.fundamentals)

(* main.py lines 357-375: the row of one position *)
portfolio_record(run_date, position) ==
    [rebalance_date |-> run_date,
     ticker |-> position.ticker,
     rank |-> position.rank,
     total_score |-> position.total_score,
     weight |-> position.weight,
     points_above_base |-> position.points_above_base,
     moat_score |-> position.pillar_scores["moat"],
     fortress_score |-> position.pillar_scores["fortress"],
     engine_score |-> position.pillar_scores["engine"],
     efficiency_score |-> position.pillar_scores["efficiency"],
     pricing_power_score_pillar |-> position.pillar_scores["pricing_power"],
     capital_allocation_score |-> position.pillar_scores["capital_allocation"],
     cash_generation_score |-> position.pillar_scores["cash_generation"],
     durability_score |-> position.pillar_scores["durability"]]

(* main.py lines 357-403: the rows of the run are added, then committed,   *)
(* or rolled back when the batch raised                                    *)
conclude_8x8(store, run_date, batch, fault, all_scores, response) ==
    LET stored == {i \in 1..Len(batch) : ~store_raises(batch[i].fundamentals)}
        positions == IF response.t = "return" THEN response.v.portfolio ELSE <<>>
        pending ==
            [NoRows EXCEPT
                !.securities = {batch[i].ticker : i \in 1..Len(batch)},
                !.fundamentals = {[ticker |-> batch[i].ticker, added |-> run_date] : i \in stored},
                !.pillar_scores = {[ticker |-> all_scores[i].ticker,
                                    timestamp |-> run_date,
                                    total_score |-> all_scores[i].total_score]
                                   : i \in 1..Len(all_scores)},
                !.portfolio_8x8 = {portfolio_record(run_date, positions[i])
                                   : i \in 1..Len(positions)}]
    IN IF fault # "none" \/ response.t # "return"
       THEN [store |-> rollback(store, pending), response |-> HTTP500]
       ELSE [store |-> commit(store, pending), response |-> response]

(* main.py lines 342-403 for the list of scored stocks *)
allocate_8x8(store, run_date, batch, fault, all_scores) ==
    conclude_8x8(store, run_date, batch, fault, all_scores, finish_rebalance(all_scores))

(* main.py lines 249-403: POST /api/rebalance-8x8 for a batch of tickers    *)
(* with the record the provider returns for each; fault as above (commit   *)
(* is line 378)                                                            *)
rebalance_8x8(store, run_date, batch, fault) ==
    allocate_8x8(store, run_date, batch, fault, score_batch(batch))

(* main.py lines 405-452: GET /api/portfolio-8x8.  The first row of the     *)
(* query ordered by rebalance_date descending gives the date (line 416);   *)
(* the positions of that date are read in rank order (lines 419-421)       *)
get_portfolio_8x8(store) ==
    IF store.portfolio_8x8 = {} THEN HTTP404
    ELSE LET rebalance_date == latest({row.rebalance_date : row \in store.portfolio_8x8})
             rows == {row \in store.portfolio_8x8 : row.rebalance_date = rebalance_date}
             by_rank == [i \in 1..Cardinality(rows) |->
                            CHOOSE row \in rows :
                                Cardinality({other \in rows : other.rank < row.rank}) = i - 1]
         IN Returned([rebalance_date |-> rebalance_date,
                      total_positions |-> Cardinality(rows),
                      portfolio |->
                          [i \in 1..Cardinality(rows) |->
                              [rank |-> by_rank[i].rank,
                               ticker |-> by_rank[i].ticker,
                               weight |-> by_rank[i].weight,
                               total_score |-> by_rank[i].total_score,
                               points_above_base |-> by_rank[i].points_above_base,
                               pillar_scores |->
                                   [moat |-> by_rank[i].moat_score,
                                    fortress |-> by_rank[i].fortress_score,
                                    engine |-> by_rank[i].engine_score,
                                    efficiency |-> by_rank[i].efficiency_score,
                                    pricing_power |-> by_rank[i].pricing_power_score_pillar,
                                    capital_allocation |-> by_rank[i].capital_allocation_score,
                                    cash_generation |-> by_rank[i].cash_generation_score,
                                    durability |-> by_rank[i].durability_score]]]])

----------------------------------------------------------------------------
(* Selection: the list of scored stocks is built one stock at a time, then *)
(* select_top_8 is applied to it.  The ticker of a stock is its position.  *)

Stock(ticker, total, flag, lowest, median2, p_fcf, fcf) ==
    [ticker |-> ticker, total_score |-> total, is_eliminated |-> flag,
     lowest_pillar_score |-> lowest, median_pillar_score |-> median2,
     p_fcf |-> p_fcf, fcf_absolute |-> fcf]

(* a stock at the qualifying boundary and an eliminated one *)
PlainStocks(ticker) ==
    {Stock(ticker, Num(32), Bool(FALSE), Num(4), Num(8), Num(20), Num(5)),
     Stock(ticker, Num(0), Bool(TRUE), Num(0), Num(12), Inf, Num(0))}

(* a top stock, and dicts that scoring does not produce: no flag, a total   *)
(* below the minimum without the flag set, no total                        *)
OddStocks(ticker) ==
    {Stock(ticker, Num(64), Bool(FALSE), Num(8), Num(16), Num(15), Num(9)),
     Stock(ticker, Num(40), Missing, Num(5), Num(10), Num(20), Num(5)),
     Stock(ticker, Num(31), Bool(FALSE), Num(3), Num(8), Num(20), Num(5)),
     Stock(ticker, Missing, Bool(FALSE), Num(4), Num(8), Missing, Missing)}

NumOdd(list) ==
    Cardinality({i \in 1..Len(list) : list[i] \notin PlainStocks(list[i].ticker)})

InitSelect ==
    /\ op = "select_top_8"
    /\ args = <<>>
    /\ ret = Pending
    /\ scored_stocks = <<>>
    /\ StoreAtStart

AddStock ==
    /\ op = "select_top_8" /\ ret = Pending
    /\ Len(scored_stocks) < MaxStocks
    /\ \E s \in PlainStocks(Len(scored_stocks) + 1) \cup OddStocks(Len(scored_stocks) + 1) :
          /\ s \in PlainStocks(s.ticker) \/ NumOdd(scored_stocks) < MaxOdd
          /\ scored_stocks' = Append(scored_stocks, s)
    /\ UNCHANGED <<op, args, ret, store_vars>>

SelectTop8 ==
    /\ op = "select_top_8" /\ ret = Pending
    /\ args' = <<scored_stocks>>
    /\ ret' = Returned(select_top_8(scored_stocks))
    /\ UNCHANGED <<op, scored_stocks, store_vars>>

NextSelect ==
    \/ AddStock
    \/ SelectTop8

SpecSelect == InitSelect /\ [][NextSelect]_vars

----------------------------------------------------------------------------
(* Ranking: select_top_8 applied to a list that starts with MaxPad equal   *)
(* qualifying stocks, followed by up to MaxAdded stocks that differ from   *)
(* them in one tie-breaker at a time.  The ticker of a stock is its        *)
(* position.                                                               *)

MidStock(ticker) == Stock(ticker, Num(40), Bool(FALSE), Num(4), Num(10), Num(20), Num(5))

RankedStocks(ticker) ==
    {MidStock(ticker),
     Stock(ticker, Num(41), Bool(FALSE), Num(4), Num(10), Num(20), Num(5)),
     Stock(ticker, Num(39), Bool(FALSE), Num(5), Num(12), Num(10), Num(9)),
     Stock(ticker, Num(40), Bool(FALSE), Num(5), Num(8), Num(30), Num(1)),
     Stock(ticker, Num(40), Bool(FALSE), Num(3), Num(12), Num(10), Num(9)),
     Stock(ticker, Num(40), Bool(FALSE), Num(4), Num(11), Num(30), Num(1)),
     Stock(ticker, Num(40), Bool(FALSE), Num(4), Num(10), Num(15), Num(1)),
     Stock(ticker, Num(40), Bool(FALSE), Num(4), Num(10), Inf, Num(9)),
     Stock(ticker, Num(40), Bool(FALSE), Num(4), Num(10), Num(20), Num(9)),
     Stock(ticker, Num(40), Bool(FALSE), Num(4), Num(10), Num(20), Missing)}

InitOrder ==
    /\ op = "select_top_8"
    /\ args = <<>>
    /\ ret = Pending
    /\ scored_stocks = [i \in 1..MaxPad |-> MidStock(i)]
    /\ StoreAtStart

AddRanked ==
    /\ op = "select_top_8" /\ ret = Pending
    /\ Len(scored_stocks) < MaxPad + MaxAdded
    /\ \E s \in RankedStocks(Len(scored_stocks) + 1) :
          scored_stocks' = Append(scored_stocks, s)
    /\ UNCHANGED <<op, args, ret, store_vars>>

NextOrder ==
    \/ AddRanked
    \/ SelectTop8

SpecOrder == InitOrder /\ [][NextOrder]_vars

----------------------------------------------------------------------------
(* The allocator functions applied to one argument list drawn from a       *)
(* bounded family.  A selection is a list of scored stocks; a ticker may   *)
(* occur twice in it (a manual ticker list is not de-duplicated,           *)
(* main.py:258) or be absent from a dict.                                  *)

Tickers == {Str("AAA"), Str("BBB")}

WeighedStock(ticker, total) ==
    Stock(ticker, total, Bool(FALSE), Num(4), Num(8), Num(20), Num(5))

WeighedStocks ==
    {WeighedStock(t, x) : t \in Tickers \cup {Missing},
                          x \in {Missing, Num(20), Num(30), Num(40), Num(64)}}

RECURSIVE Lists(_, _)
Lists(S, n) ==
    IF n = 0 THEN {<<>>}
    ELSE LET shorter == Lists(S, n - 1)
         IN shorter \cup {Append(l, x) : l \in {k \in shorter : Len(k) = n - 1}, x \in S}

(* portfolios for validate_portfolio: n positions of weight 1/n and total  *)
(* 32 with all pillars at 4, of which up to MaxFaults deviate in one field *)
TickerNames == <<"AAA", "BBB", "CCC", "DDD", "EEE", "FFF", "GGG", "HHH", "III", "JJJ", "KKK">>

Position(rank, weight, total, pillars) ==
    [rank |-> rank, ticker |-> Str(TickerNames[rank]), weight |-> weight,
     total_score |-> total, points_above_base |-> 2, pillar_scores |-> pillars]

GoodPosition(rank, n) == Position(rank, Frac(1, n), Num(32), [k \in PillarNames |-> 4])

FaultKinds ==
    {"weight_within_tolerance", "weight_off", "no_weight", "total_31", "zero_pillar",
     "no_pillar_scores"}

FaultyPosition(kind, rank, n) ==
    LET good == GoodPosition(rank, n) IN
    CASE kind = "weight_within_tolerance" ->
             [good EXCEPT !.weight = FracAdd(Frac(1, n), Frac(1, 4000))]
      [] kind = "weight_off" -> [good EXCEPT !.weight = FracAdd(Frac(1, n), Frac(1, 100))]
      [] kind = "no_weight" -> [good EXCEPT !.weight = Missing]
      [] kind = "total_31" -> [good EXCEPT !.total_score = Num(31)]
      [] kind = "zero_pillar" -> [good EXCEPT !.pillar_scores["engine"] = 0]
      [] kind = "no_pillar_scores" -> [good EXCEPT !.pillar_scores = Missing]

FaultedPortfolio(n, F, kind) ==
    [i \in 1..n |-> IF i \in F THEN FaultyPosition(kind[i], i, n) ELSE GoodPosition(i, n)]

(* portfolios for compare_portfolios: a ticker with a weight of 0.12,     *)
(* 0.15 or 0.16, whose float differences compare with 0.03 as the exact    *)
(* differences do                                                          *)
ComparedPositions ==
    {[ticker |-> t, weight |-> w, total_score |-> Num(40)] :
        t \in Tickers, w \in {Frac(12, 100), Frac(15, 100), Frac(16, 100)}}

InitAlloc ==
    /\ \/ \E l \in Lists(WeighedStocks, MaxSelected) :
             op = "calculate_weights" /\ args = <<l>>
       \/ \E n \in 0..MaxPositions :
             \E F \in {G \in SUBSET (1..n) : Cardinality(G) <= MaxFaults} :
                \E kind \in [F -> FaultKinds] :
                   op = "validate_portfolio" /\ args = <<FaultedPortfolio(n, F, kind)>>
       \/ \E old \in Lists(ComparedPositions, MaxCompared) :
             \E new \in Lists(ComparedPositions, MaxCompared) :
                op = "compare_portfolios" /\ args = <<old, new>>
    /\ ret = Pending
    /\ scored_stocks = <<>>
    /\ StoreAtStart

CalculateWeights ==
    /\ op = "calculate_weights" /\ ret = Pending
    /\ ret' = calculate_weights(args[1])
    /\ UNCHANGED <<op, args, scored_stocks, store_vars>>

ValidatePortfolio ==
    /\ op = "validate_portfolio" /\ ret = Pending
    /\ ret' = Returned(validate_portfolio(args[1]))
    /\ UNCHANGED <<op, args, scored_stocks, store_vars>>

ComparePortfolios ==
    /\ op = "compare_portfolios" /\ ret = Pending
    /\ ret' = Returned(compare_portfolios(args[1], args[2]))
    /\ UNCHANGED <<op, args, scored_stocks, store_vars>>

NextAlloc ==
    \/ CalculateWeights
    \/ ValidatePortfolio
    \/ ComparePortfolios

SpecAlloc == InitAlloc /\ [][NextAlloc]_vars

----------------------------------------------------------------------------
(* The rebalance batch: the tickers of the request are processed one at a  *)
(* time with the record the provider returns for each, then the portfolio  *)
(* is built.  args holds the batch processed so far.                       *)

WithFcf(record, fcf_multiple, fcf, fcf_absolute) ==
    record @@ ("fcf_multiple" :> fcf_multiple) @@ ("fcf" :> fcf)
           @@ ("fcf_absolute" :> fcf_absolute)

(* a record with a string where a ratio is expected *)
Malformed == WithFcf([TopBand EXCEPT !["roic"] = Str("n/a")], Num(15), Num(9), Missing)

ProviderRecords ==
    {WithFcf(TopBand, Num(15), Num(9), Missing),
     WithFcf(MinBand, Missing, Missing, Missing),
     WithFcf(FailBand, Num(20), Num(5), Missing),
     WithFcf(TopBand, Num(15), Num(9), Num(9)),
     Malformed}

InitRebalance ==
    /\ op = "rebalance_8x8"
    /\ args = <<>>
    /\ ret = Pending
    /\ scored_stocks = <<>>
    /\ StoreAtStart

ScoreTicker ==
    /\ op = "rebalance_8x8" /\ ret = Pending
    /\ Len(args) < MaxBatch
    /\ \E ticker \in Tickers, fundamentals \in ProviderRecords :
          /\ args' = Append(args, [ticker |-> ticker, fundamentals |-> fundamentals])
          /\ scored_stocks' = score_ticker(scored_stocks, ticker, fundamentals)
    /\ UNCHANGED <<op, ret, store_vars>>

FinishRebalance ==
    /\ op = "rebalance_8x8" /\ ret = Pending
    /\ ret' = finish_rebalance(scored_stocks)
    /\ UNCHANGED <<op, args, scored_stocks, store_vars>>

NextRebalance ==
    \/ ScoreTicker
    \/ FinishRebalance

SpecRebalance == InitRebalance /\ [][NextRebalance]_vars

----------------------------------------------------------------------------
(* optimize_weights applied to one argument list: score and volatility     *)
(* dicts over at most two tickers, a minimum score, and the optimizer's    *)
(* max_position_size and alpha (0.05 and 2.0 by default).                  *)

Dicts(keys, values) == UNION {[d -> values] : d \in SUBSET keys}

ScoreDicts == Dicts(Tickers, {0, 50, 60, 80})

VolatilityDicts == Dicts(Tickers, {Zero, Frac(1, 5), Frac(2, 5), Frac(5, 1), Frac(6, 1)})

OptimizerCalls ==
    {Call("optimize_weights", <<scores, volatilities, min_score, max_position_size, alpha>>) :
        scores \in ScoreDicts, volatilities \in VolatilityDicts,
        min_score \in {0, 50, 60}, max_position_size \in {Frac(1, 20), Frac(3, 5)},
        alpha \in {1, 2}}

InitOptimizer ==
    /\ \E c \in OptimizerCalls :
          /\ op = c.fn
          /\ args = c.args
    /\ ret = Pending
    /\ scored_stocks = <<>>
    /\ StoreAtStart

OptimizeWeights ==
    /\ op = "optimize_weights" /\ ret = Pending
    /\ ret' = Returned(optimize_weights(args[1], args[2], args[3], args[4], args[5]))
    /\ UNCHANGED <<op, args, scored_stocks, store_vars>>

NextOptimizer ==
    \/ OptimizeWeights

SpecOptimizer == InitOptimizer /\ [][NextOptimizer]_vars

----------------------------------------------------------------------------
(* Repeated scoring: records are scored one after another in one process;  *)
(* scored_stocks holds the calls made so far.                              *)

InitRescore ==
    /\ op = "calculate_total_score"
    /\ args = <<>>
    /\ ret = Pending
    /\ scored_stocks = <<>>
    /\ StoreAtStart

ScoreRecord ==
    /\ op = "calculate_total_score" /\ args = <<>>
    /\ Len(scored_stocks) < MaxCalls
    /\ \E fundamentals \in ProviderRecords :
          scored_stocks' = Append(scored_stocks, scorer_call(scored_stocks, fundamentals))
    /\ UNCHANGED <<op, args, ret, store_vars>>

NextRescore ==
    \/ ScoreRecord

SpecRescore == InitRescore /\ [][NextRescore]_vars

----------------------------------------------------------------------------
(* The allocation record and the securities it was built from.  The        *)
(* selected securities are objects that stay in memory after the call:     *)
(* scored_stocks holds them as they are now, args as they were passed.     *)

HeldStock(ticker, fundamentals) ==
    scored_entry(ticker, fundamentals) @@ [fundamentals |-> fundamentals]

HeldStocks ==
    {HeldStock(t, f) : t \in Tickers,
                       f \in {r \in ProviderRecords : ~store_raises(r)}}

InitSnapshot ==
    /\ \E l \in Lists(HeldStocks, MaxHeld) :
          \E weights \in {calculate_weights(l).v} :
             /\ args = <<l, weights>>
             /\ scored_stocks = l
    /\ op = "create_portfolio_allocation"
    /\ ret = Pending
    /\ StoreAtStart

CreatePortfolioAllocation ==
    /\ op = "create_portfolio_allocation" /\ ret = Pending
    /\ ret' = Returned(allocation_record(scored_stocks, args[2]))
    /\ UNCHANGED <<op, args, scored_stocks, store_vars>>

(* stock['scores'][pillar] = 0, in place *)
ModifyPillarScore ==
    /\ op \in {"create_portfolio_allocation", "modify_security"} /\ ret # Pending
    /\ \E i \in 1..Len(scored_stocks) :
          /\ scored_stocks[i]["scores"]["moat"] # 0
          /\ scored_stocks' = [scored_stocks EXCEPT ![i]["scores"]["moat"] = 0]
    /\ op' = "modify_security"
    /\ UNCHANGED <<args, ret, store_vars>>

(* stock['fundamentals']['roic'] = 1, in place *)
ModifyFundamental ==
    /\ op \in {"create_portfolio_allocation", "modify_security"} /\ ret # Pending
    /\ \E i \in 1..Len(scored_stocks) :
          /\ scored_stocks[i]["fundamentals"]["roic"] # Num(1)
          /\ scored_stocks' = [scored_stocks EXCEPT ![i]["fundamentals"]["roic"] = Num(1)]
    /\ op' = "modify_security"
    /\ UNCHANGED <<args, ret, store_vars>>

(* stock['p_fcf'] = 1 *)
ModifyTieBreaker ==
    /\ op \in {"create_portfolio_allocation", "modify_security"} /\ ret # Pending
    /\ \E i \in 1..Len(scored_stocks) :
          /\ scored_stocks[i]["p_fcf"] # Num(1)
          /\ scored_stocks' = [scored_stocks EXCEPT ![i]["p_fcf"] = Num(1)]
    /\ op' = "modify_security"
    /\ UNCHANGED <<args, ret, store_vars>>

NextSnapshot ==
    \/ CreatePortfolioAllocation
    \/ ModifyPillarScore
    \/ ModifyFundamental
    \/ ModifyTieBreaker

SpecSnapshot == InitSnapshot /\ [][NextSnapshot]_vars

----------------------------------------------------------------------------
(* Calls of apply_constraints: weights of up to two tickers, each mapped   *)
(* to a sector or not, and limits for sectors with and without members.    *)

Sectors == {Str("Tech"), Str("Fin"), Str("Unknown")}

WeightDicts == Dicts(Tickers, {Zero, Frac(1, 4), Frac(1, 2)})

SectorMaps == Dicts(Tickers, {Str("Tech"), Str("Unknown")})

SectorLimits == {None} \cup {Dict(d) : d \in Dicts(Sectors, {Frac(3, 10), Frac(3, 5)})}

InitConstraints ==
    /\ \E weights \in WeightDicts :
          \E sector_map \in SectorMaps :
             \E sector_limits \in SectorLimits :
                args = <<weights, sector_map, sector_limits>>
    /\ op = "apply_constraints"
    /\ ret = Pending
    /\ scored_stocks = <<>>
    /\ StoreAtStart

ApplyConstraints ==
    /\ op = "apply_constraints" /\ ret = Pending
    /\ ret' = Returned(apply_constraints(args[1], args[2], args[3]))
    /\ UNCHANGED <<op, args, scored_stocks, store_vars>>

NextConstraints ==
    \/ ApplyConstraints

SpecConstraints == InitConstraints /\ [][NextConstraints]_vars

----------------------------------------------------------------------------
(* Calls of _normalize_score with one domain and range: args holds the     *)
(* bounds, scored_stocks the values normalised so far with their scores.   *)

NormalizedValues == {Frac(k, 2) : k \in (0 - 4)..8} \cup {NaN}

DomainBounds == {Frac(0 - 1, 1), Zero, Frac(3, 1)}

RangeBounds == {Zero, Frac(50, 1), Frac(100, 1)}

InitNormalize ==
    /\ \E min_val \in DomainBounds, max_val \in DomainBounds :
          \E min_score \in RangeBounds, max_score \in RangeBounds :
             /\ FracLe(min_val, max_val)
             /\ FracLe(min_score, max_score)
             /\ args = <<min_val, max_val, min_score, max_score>>
    /\ op = "_normalize_score"
    /\ ret = Pending
    /\ scored_stocks = <<>>
    /\ StoreAtStart

NormalizeScore ==
    /\ op = "_normalize_score"
    /\ Len(scored_stocks) < MaxNormalized
    /\ \E value \in NormalizedValues :
          LET score == _normalize_score(value, args[1], args[2], args[3], args[4])
          IN /\ ret' = Returned(score)
             /\ scored_stocks' = Append(scored_stocks, [value |-> value, score |-> score])
    /\ UNCHANGED <<op, args, store_vars>>

NextNormalize ==
    \/ NormalizeScore

SpecNormalize == InitNormalize /\ [][NextNormalize]_vars

----------------------------------------------------------------------------
(* The service: rebalance and read requests in any order.  A request is    *)
(* handled as a whole; every rebalance request reads the clock once.       *)

ContinuousResults ==
    [Tickers -> {PerTickerError,
                 [final_score |-> 40, volatility |-> Frac(1, 5)],
                 [final_score |-> 80, volatility |-> Frac(1, 5)]}]

BatchFaults == {"none", "before_commit", "at_commit"}

PillarRecords ==
    {WithFcf(TopBand, Num(15), Num(9), Missing),
     WithFcf(FailBand, Num(20), Num(5), Missing),
     WithFcf(TopBand, Num(15), Num(9), Num(9))}

(* a batch names AAA, BBB, both or neither *)
PillarBatches ==
    {<<>>}
    \cup {<<[ticker |-> t, fundamentals |-> f]>> : t \in Tickers, f \in PillarRecords}
    \cup {<<[ticker |-> Str("AAA"), fundamentals |-> f],
            [ticker |-> Str("BBB"), fundamentals |-> g]>> : f \in PillarRecords, g \in PillarRecords}

InitStore ==
    /\ op = "startup"
    /\ args = <<>>
    /\ ret = Pending
    /\ scored_stocks = <<>>
    /\ StoreAtStart

TriggerRebalance ==
    /\ now < MaxRuns
    /\ \E results \in ContinuousResults, fault \in BatchFaults :
          \E handled \in {trigger_rebalance(db, now + 1, Tickers, results, fault)} :
             /\ db' = handled.store
             /\ ret' = handled.response
             /\ committed_runs' =
                   IF handled.response.t = "return"
                   THEN Append(committed_runs,
                               [kind |-> "continuous", run_date |-> now + 1,
                                final_scores |-> [t \in Tickers |->
                                                    dict_get(scores_dict(results), t, 0)]])
                   ELSE committed_runs
    /\ op' = "trigger_rebalance"
    /\ args' = <<>>
    /\ now' = now + 1
    /\ UNCHANGED scored_stocks

GetScores ==
    /\ op' = "get_scores"
    /\ args' = <<>>
    /\ ret' = get_scores(db)
    /\ UNCHANGED <<scored_stocks, store_vars>>

Rebalance8x8 ==
    /\ now < MaxRuns
    /\ \E batch \in PillarBatches, fault \in BatchFaults :
          \E handled \in {rebalance_8x8(db, now + 1, batch, fault)} :
             /\ db' = handled.store
             /\ ret' = handled.response
             /\ args' = <<batch>>
             /\ committed_runs' =
                   IF handled.response.t = "return"
                   THEN Append(committed_runs,
                               [kind |-> "pillar", run_date |-> now + 1,
                                portfolio |-> handled.response.v.portfolio])
                   ELSE committed_runs
    /\ op' = "rebalance_8x8"
    /\ now' = now + 1
    /\ UNCHANGED scored_stocks

GetPortfolio8x8 ==
    /\ op' = "get_portfolio_8x8"
    /\ args' = <<>>
    /\ ret' = get_portfolio_8x8(db)
    /\ UNCHANGED <<scored_stocks, store_vars>>

NextStore ==
    \/ TriggerRebalance
    \/ GetScores
    \/ Rebalance8x8
    \/ GetPortfolio8x8

SpecStore == InitStore /\ [][NextStore]_vars

----------------------------------------------------------------------------
(* Properties of the scoring functions *)

Valid == {0, 4, 5, 6, 7, 8}

PillarFunctions ==
    {"score_moat", "score_fortress", "score_engine", "score_efficiency",
     "score_pricing_power", "score_capital_allocation", "score_cash_generation",
     "score_durability"}

Done(fn) == op = fn /\ ret # Pending

(* the result of a finished calculate_total_score *)
Result == ret.v

Fundamentals == args[1]

ZeroPillarSet == {k \in PillarNames : Result.scores[k] = 0}

ReasonSet == {Result.elimination_reasons[i] : i \in 1..Len(Result.elimination_reasons)}

PillarTotal ==
    Result.scores["moat"] + Result.scores["fortress"] + Result.scores["engine"]
    + Result.scores["efficiency"] + Result.scores["pricing_power"]
    + Result.scores["capital_allocation"] + Result.scores["cash_generation"]
    + Result.scores["durability"]

(* C1: calculate_total_score: elimination_reasons is exactly the list of   *)
(* the pillar names whose score is 0 (each once), is_eliminated is true    *)
(* iff that list is non-empty, total_score is the sum of the eight pillar  *)
(* scores when not eliminated and 0 when any pillar is 0.                  *)
C1_Aggregate ==
    Done("calculate_total_score") =>
        /\ ReasonSet = ZeroPillarSet
        /\ Len(Result.elimination_reasons) = Cardinality(ZeroPillarSet)
        /\ Result.is_eliminated <=> (Result.elimination_reasons # <<>>)
        /\ ~Result.is_eliminated => Result.total_score = PillarTotal
        /\ ZeroPillarSet # {} => Result.total_score = 0

C1_Witness ==
    /\ Done("calculate_total_score")
    /\ ReasonSet = {"engine", "durability"}
    /\ Result.total_score = 0
    /\ Result.scores["moat"] = 8

(* a Python value the claims count as an input: a number or None *)
NumberOrNone(x) == x = None \/ IsNum(x)

(* C2: every pillar function returns, for any number or None and any       *)
(* buyback-quality or market-share-trend value, a value in {0,4,5,6,7,8};  *)
(* so does every pillar score emitted by calculate_total_score.            *)
C2_ScoreRange ==
    /\ \A fn \in PillarFunctions :
          Done(fn) /\ NumberOrNone(args[IF fn = "score_durability" THEN 2 ELSE 1]) =>
              ret.t = "return" /\ ret.v \in Valid
    /\ Done("calculate_total_score") =>
          \A k \in PillarNames : Result.scores[k] \in Valid

C2_Witness ==
    /\ Done("score_cash_generation")
    /\ args = <<Num(13)>>
    /\ ret = Returned(4)

(* the canonical ladder: 0 below elim, 4 up to t5, 5 up to t6, 6 up to t7, *)
(* 7 up to the top threshold and 8 above it (at it too, unless strictTop)  *)
OnLadder(x, s, elim, t5, t6, t7, t8, strictTop) ==
    LET top == IF strictTop THEN x > t8 ELSE x >= t8 IN
    /\ s = 0 <=> x < elim
    /\ s = 8 <=> top
    /\ s = 7 <=> (x >= t7 /\ ~top)
    /\ s = 6 <=> (x >= t6 /\ x < t7)
    /\ s = 5 <=> (x >= t5 /\ x < t6)
    /\ s = 4 <=> (x >= elim /\ x < t5)

NumericCall(fn) == Done(fn) /\ IsNum(args[1])

(* C3: the five single-metric ladders follow the canonical table for every *)
(* numeric input, boundaries included; engine, efficiency and cash         *)
(* generation give 8 only strictly above their top threshold.              *)
C3_Ladders ==
    /\ NumericCall("score_moat") =>
          ret.t = "return" /\ OnLadder(args[1].v, ret.v, 20, 25, 30, 35, 40, FALSE)
    /\ NumericCall("score_pricing_power") =>
          ret.t = "return" /\ OnLadder(args[1].v, ret.v, 60, 70, 80, 90, 95, FALSE)
    /\ NumericCall("score_engine") =>
          ret.t = "return" /\ OnLadder(args[1].v, ret.v, 10, 15, 20, 25, 30, TRUE)
    /\ NumericCall("score_efficiency") =>
          ret.t = "return" /\ OnLadder(args[1].v, ret.v, 40, 45, 50, 60, 70, TRUE)
    /\ NumericCall("score_cash_generation") =>
          ret.t = "return" /\ OnLadder(args[1].v, ret.v, 12, 15, 20, 25, 30, TRUE)

C3_Witness ==
    /\ Done("score_engine")
    /\ args = <<Num(30)>>
    /\ ret = Returned(7)

NoneIsZeroFunctions ==
    {"score_moat", "score_engine", "score_efficiency", "score_pricing_power",
     "score_capital_allocation", "score_cash_generation"}

(* the key holding the metric of a single-metric pillar *)
MetricKey(p) ==
    CASE p = "moat" -> "roic"
      [] p = "fortress" -> "debt_to_ebitda"
      [] p = "engine" -> "revenue_cagr_3y"
      [] p = "efficiency" -> "rule_of_40"
      [] p = "pricing_power" -> "industry_gross_margin_percentile"
      [] p = "capital_allocation" -> "roe"
      [] p = "cash_generation" -> "fcf_margin"

Absent(x) == x = Missing \/ x = None

(* no metric of the record is a string where a number is expected, so the  *)
(* scores are those of the pillar functions                                *)
NumbersOnly(f) ==
    \A key \in Keys \ {"buyback_quality", "market_share_trend"} : f[key].t # "str"

Scored == Done("calculate_total_score") /\ NumbersOnly(Fundamentals)

(* C4 as stated: every pillar function other than score_durability returns *)
(* 0 for None, score_durability returns 4 when both inputs are None, and a *)
(* record that lacks a pillar's metric scores 0 on that pillar (4 on       *)
(* durability).                                                            *)
C4_AbsentIsWorstCase ==
    /\ \A fn \in NoneIsZeroFunctions \cup {"score_fortress"} :
          Done(fn) /\ args[1] = None => ret = Returned(0)
    /\ Done("score_durability") /\ args = <<None, None>> => ret = Returned(4)
    /\ Scored =>
          /\ \A p \in PillarNames \ {"durability"} :
                Absent(Fundamentals[MetricKey(p)]) => Result.scores[p] = 0
          /\ (Absent(Fundamentals["market_share_trend"])
              /\ Absent(Fundamentals["tam_growth_rate"]))
             => Result.scores["durability"] = 4

(* C4 amended: None returns 0 for every pillar function other than         *)
(* score_fortress and score_durability; score_fortress returns 8 for None; *)
(* score_durability returns 4 when both inputs are None.  A record that    *)
(* lacks a pillar's metric scores 0 on that pillar, except 8 on fortress   *)
(* and 4 on durability.                                                    *)
C4_AbsentExceptFortress ==
    /\ \A fn \in NoneIsZeroFunctions :
          Done(fn) /\ args[1] = None => ret = Returned(0)
    /\ Done("score_fortress") /\ args[1] = None => ret = Returned(8)
    /\ Done("score_durability") /\ args = <<None, None>> => ret = Returned(4)
    /\ Scored =>
          /\ \A p \in PillarNames \ {"durability", "fortress"} :
                Absent(Fundamentals[MetricKey(p)]) => Result.scores[p] = 0
          /\ Absent(Fundamentals["debt_to_ebitda"]) => Result.scores["fortress"] = 8
          /\ (Absent(Fundamentals["market_share_trend"])
              /\ Absent(Fundamentals["tam_growth_rate"]))
             => Result.scores["durability"] = 4

C4_Witness ==
    /\ Scored
    /\ Fundamentals["debt_to_ebitda"] = Missing
    /\ Result.scores["fortress"] = 8
    /\ ~Result.is_eliminated

(* the durability table for a trend and a numeric TAM growth g (hundredths) *)
DurabilityTable(trend, g, s) ==
    /\ s = 0 <=> (trend = "losing" \/ g < 0 \/ (trend = "stable" /\ g < 10))
    /\ s # 0 =>
          /\ trend = "gaining" /\ g > 20 => s = 8
          /\ trend = "gaining" /\ g >= 15 /\ g <= 20 => s = 7
          /\ trend = "gaining" /\ g >= 10 /\ g < 15 => s = 5
          /\ trend = "gaining" /\ g < 10 => s = 4
          /\ trend = "stable" /\ g > 20 => s = 6
          /\ trend = "stable" /\ g >= 10 /\ g <= 20 => s = 4

Trends == {Str("gaining"), Str("stable"), Str("losing")}

DurabilityOnTable ==
    Done("score_durability") /\ args[1] \in Trends /\ IsNum(args[2]) =>
        ret.t = "return" /\ DurabilityTable(args[1].v, args[2].v, ret.v)

(* C5 as stated: score_durability follows the table, and a losing trend or *)
(* a negative TAM growth eliminates also when the other input is None.     *)
C5_DurabilityEliminatesWhenOtherAbsent ==
    /\ DurabilityOnTable
    /\ Done("score_durability") /\ (args[2] = None \/ IsNum(args[2]))
       /\ (args[1] = Str("losing") \/ Lt(args[2], 0))
       => ret = Returned(0)

(* C5 amended: score_durability follows the table for every trend in       *)
(* {gaining, stable, losing} and every numeric TAM growth; a losing trend  *)
(* or a negative TAM growth eliminates whenever both inputs are present,   *)
(* and when either input is None the result is 4 whatever the other is.    *)
C5_DurabilityTable ==
    /\ DurabilityOnTable
    /\ Done("score_durability") /\ args[1] # None /\ IsNum(args[2])
       /\ (args[1] = Str("losing") \/ Lt(args[2], 0))
       => ret = Returned(0)
    /\ Done("score_durability") /\ (args[1] = None \/ args[2] = None)
       => ret = Returned(4)

C5_Witness ==
    /\ Done("score_durability")
    /\ args = <<Str("stable"), Num(9)>>
    /\ ret = Returned(0)

(* C6: for every numeric debt/EBITDA (tenths) score_fortress returns 8     *)
(* exactly when the ratio is negative and 0 exactly when it exceeds 2.5; a *)
(* non-negative ratio scores 7 on [0,0.5], 6 on (0.5,1.0], 5 on (1.0,1.5]  *)
(* and 4 on (1.5,2.5].                                                     *)
C6_Fortress ==
    NumericCall("score_fortress") =>
        LET d == args[1].v
            s == ret.v
        IN /\ ret.t = "return"
           /\ s = 8 <=> d < 0
           /\ s = 0 <=> d > 25
           /\ s = 7 <=> (d >= 0 /\ d <= 5)
           /\ s = 6 <=> (d > 5 /\ d <= 10)
           /\ s = 5 <=> (d > 10 /\ d <= 15)
           /\ s = 4 <=> (d > 15 /\ d <= 25)

C6_Witness ==
    /\ Done("score_fortress")
    /\ args = <<Num(0)>>
    /\ ret = Returned(7)

(* C7: for every numeric ROE (hundredths) and every buyback quality,       *)
(* score_capital_allocation returns 0 iff ROE < 0.15; otherwise 8 iff ROE  *)
(* > 0.30 and disciplined; otherwise 7 iff ROE > 0.25 and disciplined or   *)
(* moderate; otherwise 6 iff ROE > 0.20; otherwise 5.  It never returns 4. *)
C7_CapitalAllocation ==
    NumericCall("score_capital_allocation") =>
        LET roe == args[1].v
            s == ret.v
            is8 == roe > 30 /\ args[2] = Str("disciplined")
            is7 == ~is8 /\ roe > 25 /\ args[2] \in {Str("disciplined"), Str("moderate")}
            is6 == ~is8 /\ ~is7 /\ roe > 20
        IN /\ ret.t = "return"
           /\ s = 0 <=> roe < 15
           /\ s = 8 <=> is8
           /\ s = 7 <=> is7
           /\ s = 6 <=> is6
           /\ s = 5 <=> (roe >= 15 /\ ~is8 /\ ~is7 /\ ~is6)
           /\ s # 4

C7_Witness ==
    /\ Done("score_capital_allocation")
    /\ args = <<Num(20), Str("disciplined")>>
    /\ ret = Returned(5)

(* C8: for every result of calculate_total_score, total_score < 32 implies *)
(* is_eliminated; with no pillar at 0 and a total below 32 the reasons are *)
(* exactly ['below_minimum_score'] and the total stays as computed.        *)
C8_TotalFloor ==
    Done("calculate_total_score") =>
        /\ Result.total_score < 32 => Result.is_eliminated
        /\ ZeroPillarSet = {} /\ Result.total_score < 32 =>
              /\ Result.elimination_reasons = <<"below_minimum_score">>
              /\ Result.total_score = PillarTotal

C8_Witness ==
    /\ Done("calculate_total_score")
    /\ Result.total_score < 32
    /\ Result.is_eliminated
    /\ Cardinality(ZeroPillarSet) = 1

(* C9: the record with every metric in its top band scores 8 on all eight  *)
(* pillars, total 64, not eliminated; with only ROIC changed to a value    *)
(* below 0.20 it scores moat 0, total 0, eliminated with reasons exactly   *)
(* ['moat'], the other seven pillars still 8.                              *)
C9_EndToEnd ==
    Done("calculate_total_score") =>
        /\ Fundamentals = TopBand =>
              /\ \A k \in PillarNames : Result.scores[k] = 8
              /\ Result.total_score = 64
              /\ ~Result.is_eliminated
              /\ Result.elimination_reasons = <<>>
        /\ \A x \in (0 - BelowZero)..19 :
              Fundamentals = [TopBand EXCEPT !["roic"] = Num(x)] =>
                  /\ Result.scores["moat"] = 0
                  /\ \A k \in PillarNames \ {"moat"} : Result.scores[k] = 8
                  /\ Result.total_score = 0
                  /\ Result.is_eliminated
                  /\ Result.elimination_reasons = <<"moat">>

C9_Witness ==
    /\ Done("calculate_total_score")
    /\ Fundamentals = [TopBand EXCEPT !["roic"] = Num(10)]
    /\ Result.elimination_reasons = <<"moat">>

Selected == ret.v

Qualifies(s) ==
    /\ s["is_eliminated"] # Missing
    /\ s["is_eliminated"] # Bool(TRUE)
    /\ s["total_score"] # Missing
    /\ s["total_score"].v >= 32

QualifyingPositions == {i \in 1..Len(scored_stocks) : Qualifies(scored_stocks[i])}

SelectedPositions == {Selected[i].ticker : i \in 1..Len(Selected)}

(* C10: select_top_8 returns at most 8 stocks, each an element of the      *)
(* input, taken once, that is not eliminated (no flag counts as            *)
(* eliminated) and has total_score >= 32; it returns the empty list when   *)
(* no input qualifies and all qualifying stocks when fewer than 8 qualify. *)
C10_SelectTop8 ==
    Done("select_top_8") =>
        /\ Len(Selected) <= 8
        /\ \A i \in 1..Len(Selected) :
              /\ Selected[i].ticker \in 1..Len(scored_stocks)
              /\ Selected[i] = scored_stocks[Selected[i].ticker]
              /\ Qualifies(Selected[i])
        /\ Cardinality(SelectedPositions) = Len(Selected)
        /\ QualifyingPositions = {} => Selected = <<>>
        /\ Cardinality(QualifyingPositions) < 8 => SelectedPositions = QualifyingPositions

C10_Witness ==
    /\ Done("select_top_8")
    /\ Cardinality(QualifyingPositions) = 9
    /\ Len(Selected) = 8


(* the five sort keys of a stock as integers, larger is better; an unknown *)
(* P/FCF counts as a multiple above every known one                        *)
RankKey(s) ==
    <<stock_get(s, "total_score", Num(0)).v,
      stock_get(s, "lowest_pillar_score", Num(0)).v,
      stock_get(s, "median_pillar_score", Num(0)).v,
      IF stock_get(s, "p_fcf", Inf) = Inf THEN 0 - 1000000 ELSE 0 - s["p_fcf"].v,
      stock_get(s, "fcf_absolute", Num(0)).v>>

RanksAbove(a, b) ==
    \E i \in 1..5 :
        /\ RankKey(a)[i] > RankKey(b)[i]
        /\ \A j \in 1..(i - 1) : RankKey(a)[j] = RankKey(b)[j]

LeftOutPositions == QualifyingPositions \ SelectedPositions

(* C11: the output of select_top_8 is ordered by the chain higher total,   *)
(* higher lowest pillar, higher median pillar, lower P/FCF (unknown last), *)
(* higher absolute FCF: no selected stock ranks strictly above one placed  *)
(* before it, and no qualifying stock left out ranks strictly above a      *)
(* selected one.                                                           *)
C11_RankOrder ==
    Done("select_top_8") =>
        /\ \A i, j \in 1..Len(Selected) :
              i < j => ~RanksAbove(Selected[j], Selected[i])
        /\ \A k \in LeftOutPositions : \A i \in 1..Len(Selected) :
              ~RanksAbove(scored_stocks[k], Selected[i])

C11_Witness ==
    /\ Done("select_top_8")
    /\ LeftOutPositions # {}
    /\ \E i \in 1..(Len(Selected) - 1) :
          /\ \A j \in 1..4 : RankKey(Selected[i])[j] = RankKey(Selected[i + 1])[j]
          /\ RankKey(Selected[i])[5] > RankKey(Selected[i + 1])[5]
    /\ \E i \in 1..Len(Selected) : Selected[i]["p_fcf"] = Inf


Weights == ret.v

SelectedStocks == args[1]

(* C12: for every non-empty selection calculate_weights returns weights    *)
(* that sum to 1 within 1e-3, each of them above 0, for the tickers of the *)
(* selection; for the empty selection it returns the empty mapping.        *)
C12_WeightsSumToOne ==
    Done("calculate_weights") =>
        /\ ret.t = "return"
        /\ SelectedStocks = <<>> => DOMAIN Weights = {}
        /\ SelectedStocks # <<>> =>
              /\ DOMAIN Weights = tickers_of(SelectedStocks)
              /\ \A t \in DOMAIN Weights : Weights[t].n > 0
              /\ LET total == sum_values(Weights, DOMAIN Weights)
                 IN /\ 1000 * (total.n - total.d) <= total.d
                    /\ 1000 * (total.d - total.n) <= total.d

C12_Witness ==
    /\ Done("calculate_weights")
    /\ Len(SelectedStocks) = 3
    /\ Cardinality(DOMAIN Weights) = 3
    /\ \E t \in DOMAIN Weights : Weights[t] = Frac(1, 45)


(* the points of a stock as the weighting rule states them *)
PointsAboveBase(stock) ==
    LET total == stock_get(stock, "total_score", Num(32)).v
    IN IF total - 30 >= 1 THEN total - 30 ELSE 1

RECURSIVE SumOfPoints(_, _)
SumOfPoints(stocks, n) ==
    IF n = 0 THEN 0 ELSE PointsAboveBase(stocks[n]) + SumOfPoints(stocks, n - 1)

WeightOf(i) == Weights[ticker_of(SelectedStocks[i])]

(* every dict of the list has a ticker and a total *)
WellFormed(stocks) ==
    \A i \in 1..Len(stocks) :
        stocks[i]["ticker"] # Missing /\ stocks[i]["total_score"] # Missing

(* C13: for every non-empty selection calculate_weights gives each         *)
(* selected stock the weight points_i / sum of points_j over the whole     *)
(* selection, points = max(total - 30, 1); a stock with a higher total     *)
(* never has a smaller weight and stocks with equal totals have equal      *)
(* weights.                                                                *)
C13_PointsShare ==
    Done("calculate_weights") /\ SelectedStocks # <<>> /\ WellFormed(SelectedStocks) =>
        LET n == Len(SelectedStocks)
        IN /\ ret.t = "return"
           /\ \A i \in 1..n :
                 WeightOf(i) = Frac(PointsAboveBase(SelectedStocks[i]),
                                    SumOfPoints(SelectedStocks, n))
           /\ \A i, j \in 1..n :
                 LET ti == stock_get(SelectedStocks[i], "total_score", Num(32)).v
                     tj == stock_get(SelectedStocks[j], "total_score", Num(32)).v
                 IN /\ ti > tj => FracLe(WeightOf(j), WeightOf(i))
                    /\ ti = tj => WeightOf(i) = WeightOf(j)


Response == ret.v

Batch == args

(* C14: the portfolio that rebalance_8x8 builds from any batch by          *)
(* select_top_8, calculate_weights and create_portfolio_allocation, when   *)
(* non-empty, has position weights that sum to 1 within 1e-3, no position  *)
(* with a total below 32 and no position with a pillar score of 0, and     *)
(* validate_portfolio reports no issue other than the portfolio size.      *)
C14_PipelineInvariant ==
    Done("rebalance_8x8") =>
        /\ ret.t = "return"
        /\ Response.portfolio # <<>> =>
              LET portfolio == Response.portfolio
                  issues == Response.validation.issues
              IN /\ ~off_by_more_than_tolerance(total_weight(portfolio))
                 /\ \A i \in 1..Len(portfolio) :
                       /\ portfolio[i].total_score.v >= 32
                       /\ \A k \in DOMAIN portfolio[i].pillar_scores :
                             portfolio[i].pillar_scores[k] # 0
                 /\ \A k \in 1..Len(issues) :
                       issues[k].kind \in {"only_n_positions", "too_many_positions"}


Scores == args[1]
Volatilities == args[2]
MinScore == args[3]
MaxPositionSize == args[4]
Alpha == args[5]

(* C15: every weight that optimize_weights returns is at most              *)
(* max_position_size.                                                      *)
C15_WeightsWithinCap ==
    Done("optimize_weights") =>
        \A ticker \in DOMAIN Weights : FracLe(Weights[ticker], MaxPositionSize)

A == Str("AAA")
B == Str("BBB")

(* the volatility that enters the formula: 0.25 when the ticker has none   *)
(* or one below 0.01                                                       *)
EffectiveVolatility(ticker) ==
    IF ticker \notin DOMAIN Volatilities \/ FracLt(Volatilities[ticker], Frac(1, 100))
    THEN Frac(1, 4) ELSE Volatilities[ticker]

(* C16: with scores A 80, B 60, volatilities A 0.2, B 0.4, min_score 50,   *)
(* alpha 2 and max_position_size 0.05, optimize_weights returns weights    *)
(* for A and B that sum to 1 with A's strictly larger; in every call, of   *)
(* two qualifying tickers the one with the higher score and the lower      *)
(* volatility has the strictly larger weight.                              *)
C16_HigherScoreLowerVolWins ==
    Done("optimize_weights") =>
        /\ (/\ Scores = (A :> 80) @@ (B :> 60)
            /\ Volatilities = (A :> Frac(1, 5)) @@ (B :> Frac(2, 5))
            /\ MinScore = 50 /\ Alpha = 2 /\ MaxPositionSize = Frac(1, 20))
           => /\ DOMAIN Weights = {A, B}
              /\ sum_values(Weights, DOMAIN Weights) = One
              /\ FracLt(Weights[B], Weights[A])
        /\ \A x, y \in DOMAIN Scores :
              (/\ Scores[x] >= MinScore /\ Scores[y] >= MinScore
               /\ Scores[x] > Scores[y]
               /\ FracLt(EffectiveVolatility(x), EffectiveVolatility(y)))
              => /\ x \in DOMAIN Weights /\ y \in DOMAIN Weights
                 /\ FracLt(Weights[y], Weights[x])

(* C17 as stated: optimize_weights returns the empty allocation when no    *)
(* ticker has score >= min_score, and otherwise weights that sum to 1 on   *)
(* exactly the tickers with score >= min_score.                            *)
C17_DefinedOnQualifying ==
    Done("optimize_weights") =>
        LET qualifying == {t \in DOMAIN Scores : Scores[t] >= MinScore}
        IN /\ qualifying = {} => DOMAIN Weights = {}
           /\ qualifying # {} =>
                 /\ DOMAIN Weights = qualifying
                 /\ sum_values(Weights, DOMAIN Weights) = One

(* C17: optimize_weights returns the empty allocation when no ticker has   *)
(* score >= min_score or every qualifying ticker has score 0 (the capped   *)
(* weights then sum to zero); otherwise it returns weights that sum to 1   *)
(* on exactly the tickers with score >= min_score, a ticker at min_score   *)
(* included, computed with volatility 0.25 for a ticker whose volatility   *)
(* is missing or below 0.01.                                               *)
C17_DefinedOnQualifyingUnlessZero ==
    Done("optimize_weights") =>
        LET qualifying == {t \in DOMAIN Scores : Scores[t] >= MinScore}
            all_zero == \A t \in qualifying : Scores[t] = 0
            defaulted == {t \in qualifying : EffectiveVolatility(t) = Frac(1, 4)}
            as_given == [t \in DOMAIN Volatilities \cup defaulted |->
                            IF t \in defaulted THEN Frac(1, 4) ELSE Volatilities[t]]
        IN /\ all_zero => DOMAIN Weights = {}
           /\ ~all_zero =>
                 /\ DOMAIN Weights = qualifying
                 /\ sum_values(Weights, DOMAIN Weights) = One
                 /\ Weights = optimize_weights(Scores, as_given, MinScore,
                                               MaxPositionSize, Alpha)

C17_Witness ==
    /\ Done("optimize_weights")
    /\ Scores = (A :> 50) @@ (B :> 60)
    /\ MinScore = 50
    /\ Volatilities = (A :> Zero)
    /\ Alpha = 1
    /\ MaxPositionSize = Frac(3, 5)
    /\ DOMAIN Weights = {A, B}
    /\ FracLt(Weights[A], Weights[B])


Portfolio == args[1]

WeightOfPosition(i) == IF Portfolio[i].weight = Missing THEN Zero ELSE Portfolio[i].weight

RECURSIVE SumOfWeights(_)
SumOfWeights(n) == IF n = 0 THEN Zero ELSE FracAdd(WeightOfPosition(n), SumOfWeights(n - 1))

WeightsSumToOne ==
    LET diff == FracAbs(FracSub(SumOfWeights(Len(Portfolio)), One))
    IN 1000 * diff.n <= diff.d

LowTotals ==
    {i \in 1..Len(Portfolio) :
        Portfolio[i].total_score = Missing \/ Portfolio[i].total_score.v < 32}

ZeroPillars ==
    {<<i, k>> \in (1..Len(Portfolio)) \X PillarNames :
        /\ Portfolio[i].pillar_scores # Missing
        /\ Portfolio[i].pillar_scores[k] = 0}

Issues == Result.issues

HasIssue(kinds, rank, pillar) ==
    \E j \in 1..Len(Issues) :
        Issues[j].kind \in kinds /\ Issues[j].rank = rank /\ Issues[j].pillar = pillar

(* C18: validate_portfolio returns without raising; is_valid is true iff   *)
(* the issue list is empty, which holds iff the portfolio has exactly 8    *)
(* positions, weights that sum to 1 within 1e-3, no total below 32 and no  *)
(* pillar score of 0; each violated condition has an issue of its own.     *)
C18_Validate ==
    Done("validate_portfolio") =>
        /\ ret.t = "return"
        /\ Result.is_valid <=> Issues = <<>>
        /\ Issues = <<>> <=>
              /\ Len(Portfolio) = 8
              /\ WeightsSumToOne
              /\ LowTotals = {}
              /\ ZeroPillars = {}
        /\ Len(Portfolio) # 8 => HasIssue({"only_n_positions", "too_many_positions"}, 0, "")
        /\ ~WeightsSumToOne => HasIssue({"weights_sum"}, 0, "")
        /\ \A i \in LowTotals : HasIssue({"score_below_minimum"}, i, "")
        /\ \A z \in ZeroPillars : HasIssue({"zero_pillar"}, z[1], z[2])

C18_Witness ==
    /\ Done("validate_portfolio")
    /\ Len(Portfolio) = 8
    /\ Result.is_valid
    /\ \E i \in 1..8 : Portfolio[i].weight = FracAdd(Frac(1, 8), Frac(1, 4000))
    /\ \E i \in 1..8 : Portfolio[i].pillar_scores = Missing

OldPortfolio == args[1]
NewPortfolio == args[2]
TickersIn(portfolio) == {portfolio[i].ticker : i \in 1..Len(portfolio)}
Reported(list) == {list[i].ticker : i \in 1..Len(list)}

(* the weight a portfolio holds for a ticker: that of its last position    *)
(* with the ticker                                                         *)
HeldWeight(portfolio, t) ==
    LET last == CHOOSE i \in 1..Len(portfolio) :
                    /\ portfolio[i].ticker = t
                    /\ \A j \in 1..Len(portfolio) : portfolio[j].ticker = t => j <= i
    IN portfolio[last].weight

(* C20: compare_portfolios(old, new) reports as additions exactly the      *)
(* tickers in new and not in old, as removals exactly those in old and not *)
(* in new, and a ticker in both as a weight change iff its weights differ  *)
(* by more than 0.03 (a difference of exactly 0.03 is not reported), each  *)
(* ticker once; total_changes is the sum of the three counts; a portfolio  *)
(* compared with itself has no changes.                                    *)
C20_Compare ==
    Done("compare_portfolios") =>
        LET both == TickersIn(OldPortfolio) \cap TickersIn(NewPortfolio)
            moved == {t \in both :
                         LET diff == FracSub(HeldWeight(NewPortfolio, t),
                                             HeldWeight(OldPortfolio, t))
                         IN 100 * Abs(diff.n) > 3 * diff.d}
        IN /\ Reported(Result.additions) = TickersIn(NewPortfolio) \ TickersIn(OldPortfolio)
           /\ Reported(Result.removals) = TickersIn(OldPortfolio) \ TickersIn(NewPortfolio)
           /\ Reported(Result.weight_changes) = moved
           /\ Len(Result.additions) = Cardinality(Reported(Result.additions))
           /\ Len(Result.removals) = Cardinality(Reported(Result.removals))
           /\ Len(Result.weight_changes) = Cardinality(moved)
           /\ Result.total_changes = Len(Result.additions) + Len(Result.removals)
                                        + Len(Result.weight_changes)
           /\ OldPortfolio = NewPortfolio => Result.total_changes = 0

C20_Witness ==
    /\ Done("compare_portfolios")
    /\ OldPortfolio = <<[ticker |-> A, weight |-> Frac(12, 100), total_score |-> Num(40)]>>
    /\ NewPortfolio = <<[ticker |-> A, weight |-> Frac(15, 100), total_score |-> Num(40)],
                        [ticker |-> B, weight |-> Frac(16, 100), total_score |-> Num(40)]>>
    /\ Result.weight_changes = <<>>
    /\ Result.total_changes = 1


(* scoring the record of a batch entry fails: a pillar function raises, or *)
(* the step before it does                                                 *)
ScoringFails(entry) ==
    scoring_raises(entry.fundamentals) \/ store_raises(entry.fundamentals)

Survivors == SelectSeq(Batch, LAMBDA entry : ~ScoringFails(entry))

ScoresOfSurvivors ==
    [k \in 1..Len(Survivors) |->
        scored_entry(Survivors[k].ticker, Survivors[k].fundamentals)]

(* C19: in a rebalance batch a security whose scoring fails (a malformed   *)
(* record that makes a pillar function raise) is skipped: the batch        *)
(* completes, the scored securities are those of the other entries, in     *)
(* order, and the response is the one the batch without it would give.     *)
C19_FailedSecuritySkipped ==
    Done("rebalance_8x8") =>
        /\ ret.t = "return"
        /\ scored_stocks = ScoresOfSurvivors
        /\ ret = finish_rebalance(ScoresOfSurvivors)


ScoringCalls == scored_stocks

AllTotals30(stocks) ==
    \A i \in 1..Len(stocks) : stocks[i]["total_score"] = Num(30)

(* C22: calculate_weights takes the equal-weight branch (points summing to *)
(* zero) only when every selected security's total is exactly 30, and for  *)
(* a selection whose totals are all 30 every weight equals 1/n.            *)
C22_EqualWeightFallback ==
    Done("calculate_weights") /\ SelectedStocks # <<>> /\ WellFormed(SelectedStocks) =>
        LET n == Len(SelectedStocks)
        IN /\ takes_equal_weight_branch(SelectedStocks) => AllTotals30(SelectedStocks)
           /\ AllTotals30(SelectedStocks) =>
                 /\ ret.t = "return"
                 /\ \A i \in 1..n : WeightOf(i) = Frac(1, n)


Allocated == op \in {"create_portfolio_allocation", "modify_security"} /\ ret # Pending

AllocationAsReturned == read_allocation(ret.v, args[1])

AllocationNow == read_allocation(ret.v, scored_stocks)

(* C23: the record create_portfolio_allocation returned reads the same     *)
(* after any later modification of a selected security's pillar scores,    *)
(* fundamentals or tie-break values, and when the call returns the         *)
(* selected securities are as they were passed.                            *)
C23_Snapshot ==
    /\ Done("create_portfolio_allocation") => scored_stocks = args[1]
    /\ Allocated => AllocationNow = AllocationAsReturned

(* only the pillar scores are shared: the other fields stay as returned *)
C23_SnapshotButPillarScores ==
    /\ Done("create_portfolio_allocation") => scored_stocks = args[1]
    /\ Allocated =>
          \A rank \in 1..Len(ret.v) :
             [AllocationNow[rank] EXCEPT !.pillar_scores = EmptyDict]
                = [AllocationAsReturned[rank] EXCEPT !.pillar_scores = EmptyDict]

C23_Witness ==
    /\ op = "modify_security" /\ ret # Pending
    /\ Len(scored_stocks) = 2
    /\ scored_stocks[1]["fundamentals"] # args[1][1]["fundamentals"]
    /\ scored_stocks[2]["p_fcf"] # args[1][2]["p_fcf"]
    /\ scored_stocks[2]["scores"] # args[1][2]["scores"]


GivenWeights == args[1]

SectorMap == args[2]

NoLimits == args[3] = None \/ DOMAIN args[3].v = {}

GivenLimits == args[3].v

(* the sector of a ticker as the rule states it: unmapped tickers belong   *)
(* to the sector Unknown                                                   *)
SectorOf(t) == IF t \in DOMAIN SectorMap THEN SectorMap[t] ELSE Str("Unknown")

Members(sector) == {t \in DOMAIN GivenWeights : SectorOf(t) = sector}

SectorTotal(sector) == sum_values(GivenWeights, Members(sector))

Exceeds(sector) ==
    /\ sector \in DOMAIN GivenLimits
    /\ Members(sector) # {}
    /\ FracLt(GivenLimits[sector], SectorTotal(sector))

Scaled ==
    [t \in DOMAIN GivenWeights |->
        IF Exceeds(SectorOf(t))
        THEN FracDiv(FracMul(GivenWeights[t], GivenLimits[SectorOf(t)]),
                     SectorTotal(SectorOf(t)))
        ELSE GivenWeights[t]]

ScaledTotal == sum_values(Scaled, DOMAIN Scaled)

PositiveWeights ==
    DOMAIN GivenWeights # {} /\ \A t \in DOMAIN GivenWeights : GivenWeights[t].n > 0

UnmappedTickers == {t \in DOMAIN GivenWeights : t \notin DOMAIN SectorMap}

ConstraintsAsStated ==
    /\ ret.t = "return"
    /\ NoLimits => Result = GivenWeights
    /\ ~NoLimits =>
          /\ DOMAIN Result = DOMAIN GivenWeights
          /\ \A t \in DOMAIN Result : Result[t] = FracDiv(Scaled[t], ScaledTotal)
          /\ sum_values(Result, DOMAIN Result) = One

(* C24: with limits, every member of a sector over its limit (Unknown for  *)
(* unmapped tickers included) is scaled by limit/sector_total, the others  *)
(* keep their weight, then all weights are divided by their sum: the       *)
(* result sums to 1 on the tickers of the input.  Without limits the       *)
(* weights are returned unchanged.                                         *)
C24_SectorLimits ==
    Done("apply_constraints") /\ PositiveWeights => ConstraintsAsStated

(* the same for calls in which every ticker is in the sector map *)
C24_SectorLimitsWhenMapped ==
    Done("apply_constraints") /\ PositiveWeights /\ UnmappedTickers = {} =>
        ConstraintsAsStated

C24_Witness ==
    /\ Done("apply_constraints") /\ PositiveWeights /\ UnmappedTickers = {}
    /\ ~NoLimits
    /\ Cardinality(DOMAIN GivenWeights) = 2
    /\ Exceeds(Str("Tech")) /\ ~Exceeds(Str("Unknown"))
    /\ \E t \in DOMAIN Result : Result[t] = Frac(3, 8)
    /\ \E t \in DOMAIN Result : Result[t] = Frac(5, 8)


DomainMin == args[1]

DomainMax == args[2]

RangeMin == args[3]

RangeMax == args[4]

Normalized == scored_stocks

NormalizeAsStated(calls) ==
    /\ \A i \in calls :
          /\ Normalized[i].score # NaN
          /\ FracLe(RangeMin, Normalized[i].score)
          /\ FracLe(Normalized[i].score, RangeMax)
          /\ FracLe(Normalized[i].value, DomainMin) => Normalized[i].score = RangeMin
          /\ FracLt(DomainMin, DomainMax) /\ FracLe(DomainMax, Normalized[i].value) =>
                Normalized[i].score = RangeMax
    /\ FracLt(DomainMin, DomainMax) =>
          \A i, j \in calls :
             FracLe(Normalized[i].value, Normalized[j].value) =>
                FracLe(Normalized[i].score, Normalized[j].score)

(* C25: with domain_min < domain_max and range_min <= range_max,           *)
(* _normalize_score is monotonic non-decreasing in value, returns exactly  *)
(* range_min for value <= domain_min and exactly range_max for value >=    *)
(* domain_max, and is always within the range; with domain_min equal to    *)
(* domain_max it returns without error, within the range.                  *)
C25_Normalize ==
    op = "_normalize_score" => NormalizeAsStated(1..Len(Normalized))

(* the same for the values that are numbers *)
C25_NormalizeNumbers ==
    op = "_normalize_score" =>
        NormalizeAsStated({i \in 1..Len(Normalized) : Normalized[i].value # NaN})

C25_Witness ==
    /\ op = "_normalize_score" /\ Len(Normalized) = 2
    /\ FracLt(DomainMin, DomainMax) /\ FracLt(RangeMin, RangeMax)
    /\ Normalized[1].value # NaN /\ Normalized[2].value # NaN
    /\ FracLt(DomainMin, Normalized[1].value)
    /\ FracLt(Normalized[1].value, Normalized[2].value)
    /\ FracLt(Normalized[2].value, DomainMax)
    /\ FracLt(RangeMin, Normalized[1].score)
    /\ FracLt(Normalized[1].score, Normalized[2].score)
    /\ FracLt(Normalized[2].score, RangeMax)

C25_WitnessEqualBounds ==
    /\ op = "_normalize_score" /\ Len(Normalized) = 2
    /\ DomainMin = DomainMax /\ FracLt(RangeMin, RangeMax)
    /\ Normalized[1].score = RangeMin /\ Normalized[2].score = RangeMax


(* C28: every result of calculate_total_score, the error fallback          *)
(* included, has a total of 0 or in 32..64 and is eliminated exactly when  *)
(* the total is 0; the total-floor gate is never taken, so the reason      *)
(* 'below_minimum_score' is never given.                                   *)
C28_TotalRange ==
    Done("calculate_total_score") =>
        /\ Result.total_score = 0 \/ (32 <= Result.total_score /\ Result.total_score <= 64)
        /\ Result.is_eliminated <=> Result.total_score = 0
        /\ "below_minimum_score" \notin ReasonSet

C28_Witness ==
    /\ Done("calculate_total_score")
    /\ scoring_raises(Fundamentals)
    /\ Result.total_score = 32
    /\ ~Result.is_eliminated

C28_WitnessLowestPassing ==
    /\ Done("calculate_total_score")
    /\ Fundamentals = MinBand
    /\ Result.total_score = 33
    /\ ~Result.is_eliminated


Qualifying == {t \in DOMAIN Scores : Scores[t] >= MinScore}

(* score^alpha / (volatility * 10000) with the volatility that enters the  *)
(* formula                                                                 *)
RawWeight(t) ==
    FracDiv(Frac(Pow(Scores[t], Alpha), 1),
            FracMul(EffectiveVolatility(t), Frac(10000, 1)))

AllAtCap == \A t \in Qualifying : FracLe(MaxPositionSize, RawWeight(t))

Defaults == Alpha = 2 /\ MaxPositionSize = Frac(1, 20) /\ MinScore = 50

ContinuousRuns == SelectSeq(committed_runs, LAMBDA run : run.kind = "continuous")

LatestContinuous == ContinuousRuns[Len(ContinuousRuns)]

(* C26: GET /scores answers 404 exactly while no /rebalance run has been   *)
(* committed; after a committed run it answers with the scores of the run  *)
(* with the greatest run_date, one entry for every ticker of the universe. *)
C26_ScoresOfLatestRun ==
    Done("get_scores") =>
        /\ ret = HTTP404 <=> ContinuousRuns = <<>>
        /\ ContinuousRuns # <<>> =>
              /\ ret.t = "return"
              /\ Result.run_date = LatestContinuous.run_date
              /\ \A i \in 1..Len(ContinuousRuns) :
                    ContinuousRuns[i].run_date <= Result.run_date
              /\ {entry.ticker : entry \in Result.scores} = Tickers
              /\ Cardinality(Result.scores) = Cardinality(Tickers)
              /\ \A entry \in Result.scores :
                    entry.final_score = LatestContinuous.final_scores[entry.ticker]

C26_Witness ==
    /\ Done("get_scores")
    /\ Len(ContinuousRuns) = 2
    /\ ContinuousRuns[1].final_scores # ContinuousRuns[2].final_scores
    /\ ret.t = "return"
    /\ \E entry \in Result.scores : entry.final_score = 0
    /\ \E entry \in Result.scores : entry.final_score = 80

PillarRuns == SelectSeq(committed_runs, LAMBDA run : run.kind = "pillar")

LatestPillar == PillarRuns[Len(PillarRuns)]

SelectingRuns == SelectSeq(PillarRuns, LAMBDA run : run.portfolio # <<>>)

LatestSelecting == SelectingRuns[Len(SelectingRuns)]

(* C27: after committed pillar runs GET /api/portfolio-8x8 returns exactly *)
(* the allocation of the most recent run, in rank order, and never that of *)
(* an earlier run, also when the most recent run selected no security.     *)
C27_PortfolioOfLatestRun ==
    Done("get_portfolio_8x8") /\ PillarRuns # <<>> =>
        \/ /\ ret.t = "return"
           /\ Result.rebalance_date = LatestPillar.run_date
           /\ Result.portfolio = LatestPillar.portfolio
        \/ /\ ret = HTTP404
           /\ LatestPillar.portfolio = <<>>

(* the read returns the allocation of the most recent run that selected a  *)
(* security, and 404 when there is none                                    *)
C27_PortfolioOfLatestSelectingRun ==
    Done("get_portfolio_8x8") =>
        /\ ret = HTTP404 <=> SelectingRuns = <<>>
        /\ SelectingRuns # <<>> =>
              /\ ret.t = "return"
              /\ Result.rebalance_date = LatestSelecting.run_date
              /\ Result.portfolio = LatestSelecting.portfolio
              /\ Result.total_positions = Len(LatestSelecting.portfolio)

C27_Witness ==
    /\ Done("get_portfolio_8x8")
    /\ Len(PillarRuns) = 2
    /\ Len(PillarRuns[1].portfolio) = 2
    /\ PillarRuns[2].portfolio = <<>>
    /\ ret.t = "return"
    /\ Result.portfolio = PillarRuns[1].portfolio

RebalanceHandled == now' = now + 1

(* C30: a rebalance request, continuous or pillar, that answers with an    *)
(* error leaves the store as it was before the request, with no row of the *)
(* failed run in any table, and a read request changes nothing, so later   *)
(* reads return the previous committed run.                                *)
C30_FailedRunRolledBack ==
    [][/\ (RebalanceHandled /\ ret'.t = "HTTPException") =>
             (db' = db /\ committed_runs' = committed_runs)
       /\ (RebalanceHandled /\ ret'.t = "return") =>
             Len(committed_runs') = Len(committed_runs) + 1
       /\ ~RebalanceHandled => db' = db]_vars

C30_Witness ==
    /\ op = "rebalance_8x8" /\ ret = HTTP500
    /\ args[1] # <<>>
    /\ db.scores # {}
    /\ db.portfolio_8x8 = {} /\ db.pillar_scores = {}
    /\ Len(committed_runs) = 1

====
